---- MODULE Spec2Model ----
(***************************************************************************)
(* Model of the Casa programme reconciliation engine of the horse-racing   *)
(* admin backend: backend/src/routes/sync.ts (normaliser, matcher,         *)
(* reconciler), backend/src/server.ts (scheduler) and the manual routes    *)
(* of backend/src/routes/races.ts and results.ts that write the same       *)
(* store.                                                                  *)
(*                                                                         *)
(* JavaScript strings are sequences of one-character strings, so that      *)
(* trim / toLowerCase / replace / parseInt are modelled by what they do.   *)
(* A JavaScript value is a tagged record: [t |-> "undef"], [t |-> "null"], *)
(* [t |-> "num", n |-> 7], [t |-> "str", s |-> <<"C","8">>],               *)
(* [t |-> "obj", number |-> <value>].  NaN is the empty tuple and a        *)
(* number n that is not NaN is <<n>>.                                      *)
(***************************************************************************)
EXTENDS Integers, Sequences, FiniteSets, TLC

VARIABLES
    races,      \* the Race collection, in insertion order
    results,    \* the Result collection, in insertion order
    feed,       \* the situation the external Casa API is in (see Programme)
    today,      \* the UTC day of the server clock
    last,       \* the last operation that ran, with its arguments
    report,     \* the CasaSyncResult (and write journal) of the last pass
    sched,      \* the scheduler: process, timer, log
    nops,       \* number of bounded operations taken so far
    input,      \* argument of the pure function under test
    output,     \* its result
    running     \* the requests in flight whose store operations interleave

vars == <<races, results, feed, today, last, report, sched, nops, input, output, running>>

(***************************************************************************)
(* Bounds of the model.                                                    *)
(***************************************************************************)
MaxOps == 2
MaxCodeLen == 3
MaxFinishLen == 3
MaxEnvLen == 3
MaxPrizeLen == 3

(***************************************************************************)
(* JavaScript values and strings.                                          *)
(***************************************************************************)
JsUndef == [t |-> "undef"]
JsNull == [t |-> "null"]
JsNum(n) == [t |-> "num", n |-> n]
JsStr(s) == [t |-> "str", s |-> s]
JsObj(number) == [t |-> "obj", number |-> number]

NaN == <<>>
Some(n) == <<n>>

\* the result slot of the pure-function specifications
NotRun == [done |-> FALSE]
Ran(v) == [done |-> TRUE, v |-> v]

Digits == {"0", "1", "2", "3", "4", "5", "6", "7", "8", "9"}
IsDigit(c) == c \in Digits
DigitVal(c) ==
    CASE c = "0" -> 0 [] c = "1" -> 1 [] c = "2" -> 2 [] c = "3" -> 3
      [] c = "4" -> 4 [] c = "5" -> 5 [] c = "6" -> 6 [] c = "7" -> 7
      [] c = "8" -> 8 [] c = "9" -> 9
DigitChar(d) == <<"0", "1", "2", "3", "4", "5", "6", "7", "8", "9">>[d + 1]

\* \s of a JavaScript regular expression, and what trim() strips
IsSpace(c) == c \in {" ", "\t"}

UpperLetters ==
    <<"A", "B", "C", "D", "E", "F", "G", "H", "I", "J", "K", "L", "M",
      "N", "O", "P", "Q", "R", "S", "T", "U", "V", "W", "X", "Y", "Z", "E_grave">>
LowerLetters ==
    <<"a", "b", "c", "d", "e", "f", "g", "h", "i", "j", "k", "l", "m",
      "n", "o", "p", "q", "r", "s", "t", "u", "v", "w", "x", "y", "z", "e_grave">>
\* "e_grave" and "E_grave" stand for the letters e-grave and E-grave of "Meknes"
LowerChar(c) ==
    IF \E i \in 1..Len(UpperLetters) : UpperLetters[i] = c
    THEN LowerLetters[CHOOSE i \in 1..Len(UpperLetters) : UpperLetters[i] = c]
    ELSE c

\* String.prototype.toLowerCase
ToLower(s) == [i \in 1..Len(s) |-> LowerChar(s[i])]

\* String.prototype.trim
Trim(s) ==
    LET keep == {i \in 1..Len(s) : ~IsSpace(s[i])}
    IN IF keep = {} THEN <<>>
       ELSE LET lo == CHOOSE i \in keep : \A j \in keep : i <= j
                hi == CHOOSE i \in keep : \A j \in keep : i >= j
            IN SubSeq(s, lo, hi)

\* s.replace(/\s+/g, with): every maximal run of whitespace becomes `with`
ReplaceSpaceRuns(s, with) ==
    LET F[i \in 0..Len(s)] ==
            IF i = 0 THEN <<>>
            ELSE IF ~IsSpace(s[i]) THEN Append(F[i - 1], s[i])
            ELSE IF i > 1 /\ IsSpace(s[i - 1]) THEN F[i - 1]
            ELSE F[i - 1] \o with
    IN F[Len(s)]

IsNotSpace(c) == ~IsSpace(c)
\* s.replace(/\s/g, '')
RemoveSpaces(s) == SelectSeq(s, IsNotSpace)
\* s.replace(/\D/g, '')
RemoveNonDigits(s) == SelectSeq(s, IsDigit)

\* value of a sequence of decimal digits
DecValue(ds) ==
    LET F[i \in 0..Len(ds)] ==
            IF i = 0 THEN 0 ELSE 10 * F[i - 1] + DigitVal(ds[i])
    IN F[Len(ds)]

\* String(n) for an integer n
RECURSIVE NatStr(_)
NatStr(n) == IF n < 10 THEN <<DigitChar(n)>> ELSE Append(NatStr(n \div 10), DigitChar(n % 10))
NumStr(n) == IF n < 0 THEN <<"-">> \o NatStr(-n) ELSE NatStr(n)

\* length of the longest prefix of s whose characters all satisfy P
PrefixLen(s, P(_)) ==
    IF \A i \in 1..Len(s) : P(s[i]) THEN Len(s)
    ELSE (CHOOSE i \in 1..Len(s) : ~P(s[i]) /\ \A j \in 1..(i - 1) : P(s[j])) - 1

DropFirst(s, n) == SubSeq(s, n + 1, Len(s))

\* parseInt(s, 10): leading whitespace, an optional sign, then the longest
\* run of digits; NaN when there is no digit there
ParseInt(s) ==
    LET a == DropFirst(s, PrefixLen(s, IsSpace))
        neg == a # <<>> /\ a[1] = "-"
        b == IF a # <<>> /\ a[1] \in {"-", "+"} THEN Tail(a) ELSE a
        k == PrefixLen(b, IsDigit)
    IN IF k = 0 THEN NaN
       ELSE Some((IF neg THEN -1 ELSE 1) * DecValue(SubSeq(b, 1, k)))

\* String(v) for the values the feed can hold in a `number` field
JsToString(v) ==
    CASE v.t = "str" -> v.s
      [] v.t = "num" -> NumStr(v.n)
      [] v.t = "undef" -> <<"u", "n", "d", "e", "f", "i", "n", "e", "d">>
      [] v.t = "null" -> <<"n", "u", "l", "l">>
      [] OTHER -> <<"[", "o", "b", "j", "e", "c", "t", "]">>

(***************************************************************************)
(* sync.ts: raceNumberFromCode                                             *)
(***************************************************************************)
\* trimmed.match(/^C(\d+)$/i)
MatchesCDigits(s) ==
    /\ Len(s) >= 2
    /\ s[1] \in {"C", "c"}
    /\ \A i \in 2..Len(s) : IsDigit(s[i])

\* mutant: parseInt applied from the first digit on, which stops at the end
\* of the first run of digits
FallbackDigitsFirstRun(trimmed) ==
    ParseInt(DropFirst(trimmed, PrefixLen(trimmed, LAMBDA c : ~IsDigit(c))))
\* parseInt(trimmed.replace(/\D/g, ''), 10)
FallbackDigits(trimmed) == ParseInt(RemoveNonDigits(trimmed))

raceNumberFromCode(code) ==
    IF code.t # "str" THEN 0
    ELSE LET trimmed == Trim(code.s)
         IN IF MatchesCDigits(trimmed) THEN DecValue(Tail(trimmed))
            ELSE LET num == FallbackDigits(trimmed)
                 IN IF num = NaN THEN 0 ELSE num[1]

(***************************************************************************)
(* sync.ts: arrivalFromFinishOrder                                         *)
(***************************************************************************)
\* typeof item.number === 'number' ? item.number : parseInt(String(item.number), 10)
ItemNumber(item) ==
    IF item.number.t = "num" THEN Some(item.number.n)
    ELSE ParseInt(JsToString(item.number))

\* mutant: the earlier finishOrder.map(Number).filter(n => !isNaN(n) && n >= 1),
\* under which Number(<object>) is NaN, Number(null) is 0 and Number("5") is 5
arrivalByNumberCast(finishOrder) ==
    LET Cast(item) ==
            CASE item.t = "num" -> Some(item.n)
              [] item.t = "null" -> Some(0)
              [] item.t = "str" ->
                    IF item.s # <<>> /\ \A i \in 1..Len(item.s) : IsDigit(item.s[i])
                    THEN Some(DecValue(item.s)) ELSE NaN
              [] OTHER -> NaN
        F[i \in 0..Len(finishOrder)] ==
            IF i = 0 THEN <<>>
            ELSE LET n == Cast(finishOrder[i])
                 IN IF n # NaN /\ n[1] >= 1 THEN Append(F[i - 1], n[1]) ELSE F[i - 1]
    IN F[Len(finishOrder)]

arrivalFromFinishOrder(finishOrder) ==
    LET F[i \in 0..Len(finishOrder)] ==
            IF i = 0 THEN <<>>
            ELSE LET item == finishOrder[i]
                 IN IF item.t = "num" /\ item.n >= 1 THEN Append(F[i - 1], item.n)
                    ELSE IF item.t = "obj"
                         THEN LET n == ItemNumber(item)
                              IN IF n # NaN /\ n[1] >= 1 THEN Append(F[i - 1], n[1])
                                 ELSE F[i - 1]
                         ELSE F[i - 1]
    IN F[Len(finishOrder)]

(***************************************************************************)
(* server.ts: AUTO_SYNC_INTERVAL_MS and the delay setInterval uses         *)
(***************************************************************************)
MIN_INTERVAL_MS == 60000
DEFAULT_INTERVAL_STR == <<"6", "0", "0", "0", "0", "0">>

\* Math.max(a, b) for a number a and a possibly-NaN b
MathMax(a, b) == IF b = NaN THEN NaN ELSE IF b[1] > a THEN b ELSE Some(a)

\* Math.max(60_000, parseInt(process.env.AUTO_SYNC_INTERVAL_MS || '600000', 10))
AUTO_SYNC_INTERVAL_MS(env) ==
    MathMax(MIN_INTERVAL_MS,
            ParseInt(IF env.t = "undef" \/ env.s = <<>> THEN DEFAULT_INTERVAL_STR ELSE env.s))

\* setInterval(run, ms): Node coerces a delay that is NaN or below 1 to 1 ms
\* (delays above 2^31 - 1, which Node also coerces to 1, are outside the
\* integer range of the model and are not drawn as inputs)
TimerDelay(ms) ==
    IF ms = NaN \/ ms[1] < 1 THEN 1 ELSE ms[1]

(***************************************************************************)
(* sync.ts: the venue allow-list and the alias table                       *)
(***************************************************************************)
S_casablanca == <<"c", "a", "s", "a", "b", "l", "a", "n", "c", "a">>
S_anfa == <<"a", "n", "f", "a">>
S_rabat == <<"r", "a", "b", "a", "t">>
S_el_jadida == <<"e", "l", " ", "j", "a", "d", "i", "d", "a">>
S_eljadida == <<"e", "l", "j", "a", "d", "i", "d", "a">>
S_settat == <<"s", "e", "t", "t", "a", "t">>
S_meknes_grave == <<"m", "e", "k", "n", "e_grave", "s">>
S_meknes == <<"m", "e", "k", "n", "e", "s">>
S_khemisset == <<"k", "h", "e", "m", "i", "s", "s", "e", "t">>
S_marrakech == <<"m", "a", "r", "r", "a", "k", "e", "c", "h">>

CASABLANCA_ANFA_ALIASES ==
    {S_anfa, S_casablanca, S_casablanca \o <<" ">> \o S_anfa, S_anfa \o <<" ">> \o S_casablanca}
MOROCCO_TRACKS ==
    CASABLANCA_ANFA_ALIASES \cup
    {S_rabat, S_el_jadida, S_eljadida, S_settat, S_meknes_grave, S_meknes,
     S_khemisset, S_marrakech}

T_Casablanca == <<"C", "a", "s", "a", "b", "l", "a", "n", "c", "a">>

\* (x ?? '').trim().toLowerCase().replace(/\s+/g, ' ')
NormalTrack(track) ==
    ReplaceSpaceRuns(ToLower(Trim(IF track.t = "str" THEN track.s ELSE <<>>)), <<" ">>)

\* mutant: the allow-list is not consulted (the earlier version of the pass
\* kept every meeting of the feed)
isAnyMeeting(meeting) == NormalTrack(meeting.track) # <<>>
isMoroccoMeeting(meeting) ==
    LET track == NormalTrack(meeting.track)
    IN IF track = <<>> THEN FALSE
       ELSE track \in MOROCCO_TRACKS \/ RemoveSpaces(track) \in MOROCCO_TRACKS

getCanonicalTrack(apiTrack) ==
    LET t == ReplaceSpaceRuns(ToLower(Trim(apiTrack)), <<" ">>)
    IN IF t = <<>> THEN Trim(apiTrack)
       ELSE IF t \in CASABLANCA_ANFA_ALIASES \/ RemoveSpaces(t) \in CASABLANCA_ANFA_ALIASES
            THEN T_Casablanca
       ELSE Trim(apiTrack)

\* [a-z0-9-]
IsSlugChar(c) ==
    \/ IsDigit(c)
    \/ c = "-"
    \/ \E i \in 1..26 : LowerLetters[i] = c
slugTrack(track) ==
    SelectSeq(ReplaceSpaceRuns(Trim(ToLower(track)), <<"-">>), IsSlugChar)

(***************************************************************************)
(* Dates.  A date string YYYY-MM-DD is identified by its day number d; a   *)
(* stored Date is its time in ms.                                          *)
(***************************************************************************)
MsPerDay == 86400000
Days == {1, 2}
DateStr(d) == <<"2", "0", "2", "4", "-", "0", "1", "-", "0", DigitChar(d)>>
\* new Date(date + 'T00:00:00.000Z') and new Date(date + 'T23:59:59.999Z')
DateStart(d) == d * MsPerDay
DateEnd(d) == d * MsPerDay + (MsPerDay - 1)
\* new Date(x).toISOString().slice(0, 10), as a day number
DayOf(ms) == ms \div MsPerDay

casaRaceId(d, raceNumber, track) ==
    DateStr(d) \o <<"-">> \o slugTrack(track) \o <<"-">> \o NumStr(raceNumber)

(***************************************************************************)
(* sync.ts: parsePrize, mapRunnersToParticipants, fetchCasaRaceDetails     *)
(***************************************************************************)
DEFAULT_CURRENCY == <<"D", "h">>
DEFAULT_WEIGHT == 58
PLACEHOLDER == <<"EM_DASH">>

IsAmountChar(c) == IsDigit(c) \/ IsSpace(c) \/ c \in {".", ","}

\* s.replace(',', '.'): the first comma only
ReplaceFirstComma(s) ==
    IF \E i \in 1..Len(s) : s[i] = ","
    THEN LET k == CHOOSE i \in 1..Len(s) : s[i] = "," /\ \A j \in 1..(i - 1) : s[j] # ","
         IN [s EXCEPT ![k] = "."]
    ELSE s

\* parseFloat on a string of digits, '.' and ',': NaN or integer part and
\* fraction digits
ParseFloat(s) ==
    LET k == PrefixLen(s, IsDigit)
        rest == DropFirst(s, k)
        frac == IF rest # <<>> /\ rest[1] = "."
                THEN SubSeq(rest, 2, 1 + PrefixLen(Tail(rest), IsDigit))
                ELSE <<>>
    IN IF k = 0 /\ frac = <<>> THEN NaN
       ELSE Some([int |-> DecValue(SubSeq(s, 1, k)), frac |-> frac])

\* Math.round of a non-negative amount
MathRound(a) == a.int + (IF a.frac # <<>> /\ DigitVal(a.frac[1]) >= 5 THEN 1 ELSE 0)

NoPrize == [found |-> FALSE]
\* trimmed.match(/^([\d\s.,]+)\s*(\S*)$/): group 1 is the longest prefix of
\* amount characters, group 2 the rest, which must hold no whitespace
parsePrize(prize) ==
    IF prize.t # "str" \/ prize.s = <<>> THEN NoPrize
    ELSE LET trimmed == Trim(prize.s)
             k == PrefixLen(trimmed, IsAmountChar)
             g1 == SubSeq(trimmed, 1, k)
             g2 == DropFirst(trimmed, k)
         IN IF k = 0 \/ \E i \in 1..Len(g2) : IsSpace(g2[i]) THEN NoPrize
            ELSE LET amount == ParseFloat(ReplaceFirstComma(RemoveSpaces(g1)))
                 IN IF amount = NaN THEN NoPrize
                    ELSE [found |-> TRUE,
                          purse |-> MathRound(amount[1]),
                          pursecurrency |-> IF g2 = <<>> THEN DEFAULT_CURRENCY ELSE g2]

\* String(x ?? '').trim() || placeholder
NameOr(x) ==
    LET s == IF x.t = "str" THEN Trim(x.s) ELSE <<>>
    IN IF s = <<>> THEN PLACEHOLDER ELSE s

\* runner weights are drawn as numbers or absent
mapRunnersToParticipants(runners) ==
    LET Number(r) ==
            IF r.number.t = "num" THEN Some(r.number.n)
            ELSE ParseInt(IF r.number.t \in {"undef", "null"} THEN <<"0">>
                          ELSE JsToString(r.number))
        Mapped(r) ==
            [number |-> IF Number(r) = NaN \/ Number(r)[1] < 1 THEN 0 ELSE Number(r)[1],
             horse |-> NameOr(r.horse_name),
             jockey |-> NameOr(r.jockey_name),
             weight |-> IF r.weight.t = "num" THEN r.weight.n ELSE DEFAULT_WEIGHT]
        F[i \in 0..Len(runners)] ==
            IF i = 0 THEN <<>>
            ELSE IF runners[i].t = "null" THEN F[i - 1]
            ELSE IF Mapped(runners[i]).number >= 1 THEN Append(F[i - 1], Mapped(runners[i]))
            ELSE F[i - 1]
    IN F[Len(runners)]

NoDetails == [ok |-> FALSE]
\* the answer of GET /api/race/{id}: [ok |-> FALSE] for a failed fetch, else
\* [ok |-> TRUE, prize, runners, weather_temp]
fetchCasaRaceDetails(api, casaId) ==
    LET res == IF casaId \in DOMAIN api.details THEN api.details[casaId] ELSE NoDetails
    IN IF ~res.ok THEN NoDetails
       ELSE [ok |-> TRUE,
             prize |-> parsePrize(res.prize),
             weather_temp |-> IF res.weather_temp.t = "num" THEN Some(res.weather_temp.n) ELSE NaN,
             participants |-> mapRunnersToParticipants(res.runners)]

(***************************************************************************)
(* The store: Mongoose models Race and Result.                             *)
(***************************************************************************)
NotFound == 0

\* mutant: the track is put into the pattern as it is
EscapeNothing(s) == s
\* track.replace(/[.*+?^${}()|[\]\\]/g, '\\$&'): every character that is an
\* operator of a pattern gets a backslash in front
RegExpSpecials ==
    {".", "*", "+", "?", "^", "$", "{", "}", "(", ")", "|", "[", "]", "\\"}
EscapeRegExp(s) ==
    LET F[k \in 0..Len(s)] ==
            IF k = 0 THEN <<>>
            ELSE IF s[k] \in RegExpSpecials
                 THEN F[k - 1] \o <<"\\", s[k]>>
                 ELSE Append(F[k - 1], s[k])
    IN F[Len(s)]

\* The pattern `^<source>$` with flag i.  Of a source, the test reads a
\* backslash and the character after it as that character, a dot as any
\* character but a line break, and any other character as itself.
TrackPattern(track) == EscapeRegExp(track)
RegExpAtoms(source) ==
    LET F[k \in 1..(Len(source) + 2)] ==
            IF k > Len(source) THEN <<>>
            ELSE IF source[k] = "\\" /\ k < Len(source)
                 THEN <<[any |-> FALSE, c |-> source[k + 1]]>> \o F[k + 2]
                 ELSE <<[any |-> source[k] = ".", c |-> source[k]]>> \o F[k + 1]
    IN F[1]
RegExpTest(source, text) ==
    \E atoms \in {RegExpAtoms(source)} :
        /\ Len(atoms) = Len(text)
        /\ \A k \in 1..Len(text) :
              \/ atoms[k].any /\ text[k] # "\n"
              \/ ~atoms[k].any /\ LowerChar(atoms[k].c) = LowerChar(text[k])

\* Race.findOne({ date: { $gte: dateStart, $lte: dateEnd },
\*                hippodrome: /^<track>$/i, race_number }): index of the first
\* matching Race in store order, 0 when there is none
RaceMatches(race, d, track, raceNumber) ==
    /\ race.date >= DateStart(d)
    /\ race.date <= DateEnd(d)
    /\ race.race_number = raceNumber
    /\ RegExpTest(TrackPattern(track), race.hippodrome)
FindRace(rs, d, track, raceNumber) ==
    IF \E i \in 1..Len(rs) : RaceMatches(rs[i], d, track, raceNumber)
    THEN CHOOSE i \in 1..Len(rs) :
            /\ RaceMatches(rs[i], d, track, raceNumber)
            /\ \A j \in 1..(i - 1) : ~RaceMatches(rs[j], d, track, raceNumber)
    ELSE NotFound

\* Race.findById(_id)
FindRaceById(rs, id) ==
    IF \E i \in 1..Len(rs) : rs[i].id = id
    THEN CHOOSE i \in 1..Len(rs) : rs[i].id = id
    ELSE NotFound

\* Result.findOne({ race_id })
FindResult(res, raceId) ==
    IF \E i \in 1..Len(res) : res[i].race_id = raceId
    THEN CHOOSE i \in 1..Len(res) :
            res[i].race_id = raceId /\ \A j \in 1..(i - 1) : res[j].race_id # raceId
    ELSE NotFound

EmptyMap == <<>>

(***************************************************************************)
(* sync.ts: runCasaProgrammeSync.  The pass is a fold of one step per      *)
(* external race over the retained meetings, first the race-creation stage *)
(* (when addRaces), then the result stage.  Its state st holds the store,  *)
(* the five lists of the report, and a journal with one entry per store    *)
(* write or report entry, tagged with the stage and the position <<m, r>>  *)
(* of the external race that caused it.                                    *)
(***************************************************************************)
Journal(st, op, stage, pos) ==
    Append(st.journal, [op |-> op, stage |-> stage, m |-> pos[1], r |-> pos[2]])

\* (x && String(x).trim()) || dflt
TextOr(x, dflt) ==
    LET s == IF x.t = "str" THEN Trim(x.s) ELSE <<>>
    IN IF s = <<>> THEN dflt ELSE s

\* the document of Race.create in the race-creation stage
NewCasaRace(d, track, raceNumber, race) ==
    [id |-> casaRaceId(d, raceNumber, track),
     date |-> DateStart(d),
     hippodrome |-> track,
     race_number |-> raceNumber,
     time |-> TextOr(race.time_hm, <<"0", "0", ":", "0", "0">>),
     distance |-> IF race.distance.t = "num" THEN race.distance.n ELSE 0,
     title |-> TextOr(race.name, <<"R", "a", "c", "e", " ">> \o NumStr(raceNumber)),
     purse |-> 0,
     pursecurrency |-> TextOr(race.pursecurrency, DEFAULT_CURRENCY),
     participants |-> <<>>]

\* details && (details.purse != null || details.weather_temp != null ||
\*             details.participants.length)
HasEnrichment(details) ==
    /\ details.ok
    /\ \/ details.prize.found
       \/ details.weather_temp # NaN
       \/ details.participants # <<>>

\* mutant: the update replaces purse, currency and participants by what the
\* detail response holds, also when it holds none
ReplaceRaceFields(race, details) ==
    [race EXCEPT
        !.purse = IF details.prize.found THEN details.prize.purse ELSE 0,
        !.pursecurrency = IF details.prize.found THEN details.prize.pursecurrency ELSE DEFAULT_CURRENCY,
        !.participants = details.participants]
\* mutant: the update is written without $set and replaces the document, so
\* that the fields it does not name are gone
ReplaceRaceDocument(race, details) ==
    [race EXCEPT
        !.time = <<>>, !.distance = 0, !.title = <<>>,
        !.purse = IF details.prize.found THEN details.prize.purse ELSE @,
        !.pursecurrency = IF details.prize.found THEN details.prize.pursecurrency ELSE @,
        !.participants = IF details.participants # <<>> THEN details.participants ELSE @]
\* Race.findByIdAndUpdate(_id, { $set: update }).  RaceSchema declares no
\* weather_temp path, so Mongoose drops that key of the update.
ApplyRaceUpdate(race, details) ==
    [race EXCEPT
        !.purse = IF details.prize.found THEN details.prize.purse ELSE @,
        !.pursecurrency = IF details.prize.found THEN details.prize.pursecurrency ELSE @,
        !.participants = IF details.participants # <<>> THEN details.participants ELSE @]

\* the positions <<m, r>> of the external races of the retained meetings
\* (allMeetings.filter(isMoroccoMeeting), then `if (!apiTrack) continue`)
Retained(meeting) ==
    /\ isMoroccoMeeting(meeting)
    /\ Trim(meeting.track.s) # <<>>
Positions(api) ==
    LET F[m \in 0..Len(api.meetings)] ==
            IF m = 0 THEN <<>>
            ELSE IF Retained(api.meetings[m])
                 THEN F[m - 1] \o [r \in 1..Len(api.meetings[m].races) |-> <<m, r>>]
                 ELSE F[m - 1]
    IN F[Len(api.meetings)]

\* What a pass obtains for the external race at pos, none of which depends
\* on the store: the canonical track of its meeting, its race number, its
\* normalised arrival, and the answer of its detail fetch.  A null entry of
\* the race list is kept as it is.
External(api, pos) ==
    LET meeting == api.meetings[pos[1]]
        race == meeting.races[pos[2]]
    IN IF race.t = "null" THEN [pos |-> pos, race |-> race]
       ELSE [pos |-> pos,
             race |-> race,
             track |-> getCanonicalTrack(Trim(meeting.track.s)),
             raceNumber |-> raceNumberFromCode(race.code),
             arrival |-> arrivalFromFinishOrder(race.finish_order),
             details |-> fetchCasaRaceDetails(api, race.id)]

\* lines 201-207: the programme as fetched and filtered
Fetch(api) ==
    IF ~api.ok THEN [ok |-> FALSE]
    ELSE LET ps == Positions(api)
             F[k \in 0..Len(ps)] ==
                 IF k = 0 THEN <<>> ELSE Append(F[k - 1], External(api, ps[k]))
         IN [ok |-> TRUE,
             meetingsFromApi |-> Len(api.meetings),
             meetingsMorocco |->
                 Cardinality({m \in 1..Len(api.meetings) : isMoroccoMeeting(api.meetings[m])}),
             externals |-> F[Len(ps)]]

\* mutant: fetchCasaRaceDetails lets the failure of its fetch escape
EnrichOrThrow(st, details, i, stage, pos) ==
    IF ~details.ok THEN [st EXCEPT !.status = "error"]
    ELSE IF HasEnrichment(details)
    THEN [st EXCEPT !.races[i] = ApplyRaceUpdate(@, details),
                    !.journal = Journal(st, "raceUpdate", stage, pos)]
    ELSE st
\* the enrichment block of both stages, applied to the Race at index i:
\* `if (details && (...))` and the update it guards
Enrich(st, details, i, stage, pos) ==
    IF HasEnrichment(details)
    THEN [st EXCEPT !.races[i] = ApplyRaceUpdate(@, details),
                    !.journal = Journal(st, "raceUpdate", stage, pos)]
    ELSE st

\* mutant: the existence checks of the creation stage are skipped
RaceAlreadyKnownNever(rs, d, track, raceNumber) == FALSE
\* lines 225-232: found by the Matcher, or by the deterministic identifier
RaceAlreadyKnown(rs, d, track, raceNumber) ==
    \/ FindRace(rs, d, track, raceNumber) # NotFound
    \/ FindRaceById(rs, casaRaceId(d, raceNumber, track)) # NotFound

\* lines 233-256: Race.create, then the enrichment of the new Race
CreateRace(st, x, doc) ==
    Enrich([st EXCEPT !.races = Append(@, doc),
                      !.racesAdded = Append(@, doc.id),
                      !.journal = Journal(st, "raceCreate", "create", x.pos)],
           x.details, Len(st.races) + 1, "create", x.pos)
\* lines 223-232
CreateNumbered(st, d, x) ==
    IF x.raceNumber <= 0 THEN st
    ELSE IF RaceAlreadyKnown(st.races, d, x.track, x.raceNumber) THEN st
    ELSE CreateRace(st, x, NewCasaRace(d, x.track, x.raceNumber, x.race))
\* one iteration of the inner loop of the race-creation stage (lines 218-258);
\* reading a field of a null entry throws
CreateStep(st, d, x) ==
    IF st.status # "ok" THEN st
    ELSE IF x.race.t = "null" THEN [st EXCEPT !.status = "error"]
    ELSE CreateNumbered(st, d, x)

\* mutant: the update replaces the whole Result document, as the create does
ReplaceResult(result, arrival) ==
    [race_id |-> result.race_id, arrival |-> arrival,
     rapports |-> EmptyMap, simple |-> EmptyMap, couple |-> EmptyMap, trio |-> EmptyMap]
\* mutant: the arrival is pushed onto the stored one instead of set
PushArrival(result, arrival) == [result EXCEPT !.arrival = @ \o arrival]
\* Result.updateOne({ race_id }, { $set: { arrival } })
SetArrival(result, arrival) == [result EXCEPT !.arrival = arrival]

\* Result.create({ race_id, arrival, rapports: {}, simple: {}, couple: {}, trio: {} })
NewResult(raceId, arrival) ==
    [race_id |-> raceId, arrival |-> arrival,
     rapports |-> EmptyMap, simple |-> EmptyMap, couple |-> EmptyMap, trio |-> EmptyMap]

\* `${track} ${race.code}` and `${track} ${race.code} (empty finish_order)`
SkippedText(track, code) == track \o <<" ">> \o JsToString(code)
SkippedEmptyText(track, code) ==
    SkippedText(track, code) \o
    <<" ", "(", "e", "m", "p", "t", "y", " ", "f", "i", "n", "i", "s", "h", "_",
      "o", "r", "d", "e", "r", ")">>
\* `${track} C${raceNumber} (${race.name})`
NotFoundText(track, raceNumber, name) ==
    track \o <<" ", "C">> \o NumStr(raceNumber) \o <<" ", "(">> \o JsToString(name) \o <<")">>

\* mutant: an unmatched finished race is created on the spot
UnmatchedCreates(st, d, x) ==
    [st EXCEPT !.races = Append(@, NewCasaRace(d, x.track, x.raceNumber, x.race)),
               !.journal = Journal(st, "raceCreate", "result", x.pos)]
\* lines 284-287
Unmatched(st, d, x) ==
    [st EXCEPT !.notFound = Append(@, NotFoundText(x.track, x.raceNumber, x.race.name)),
               !.journal = Journal(st, "notFound", "result", x.pos)]

\* lines 298-312: the Result of the matched Race is updated or created
WriteResult(en, raceId, k, arrival, pos) ==
    IF k # NotFound
    THEN [en EXCEPT !.results[k] = SetArrival(@, arrival),
                    !.updated = Append(@, raceId),
                    !.journal = Journal(en, "resultUpdate", "result", pos)]
    ELSE [en EXCEPT !.results = Append(@, NewResult(raceId, arrival)),
                    !.created = Append(@, raceId),
                    !.journal = Journal(en, "resultCreate", "result", pos)]
\* lines 279-297: the Matcher's answer i decides
ResultMatched(st, d, x, i) ==
    IF i = NotFound
    THEN Unmatched(st, d, x)
    ELSE WriteResult(Enrich(st, x.details, i, "result", x.pos), st.races[i].id,
                     FindResult(st.results, st.races[i].id), x.arrival, x.pos)
\* mutant: a finish order without a usable entry is written like any other
ResultNumberedUnfiltered(st, d, x) ==
    IF x.raceNumber <= 0
    THEN [st EXCEPT !.skipped = Append(@, SkippedText(x.track, x.race.code)),
                    !.journal = Journal(st, "skipped", "result", x.pos)]
    ELSE ResultMatched(st, d, x, FindRace(st.races, d, x.track, x.raceNumber))
\* lines 268-278
ResultNumbered(st, d, x) ==
    IF x.raceNumber <= 0
    THEN [st EXCEPT !.skipped = Append(@, SkippedText(x.track, x.race.code)),
                    !.journal = Journal(st, "skipped", "result", x.pos)]
    ELSE IF x.arrival = <<>>
    THEN [st EXCEPT !.skipped = Append(@, SkippedEmptyText(x.track, x.race.code)),
                    !.journal = Journal(st, "skipped", "result", x.pos)]
    ELSE ResultMatched(st, d, x, FindRace(st.races, d, x.track, x.raceNumber))
\* one iteration of the inner loop of the result stage (lines 265-313)
ResultStep(st, d, x) ==
    IF st.status # "ok" THEN st
    ELSE IF x.race.t = "null" THEN [st EXCEPT !.status = "error"]
    ELSE IF ~x.race.finished \/ x.race.finish_order = <<>> THEN st
    ELSE ResultNumbered(st, d, x)

\* the element of a one-element set (binds each pass state once it is computed)
TheOne(S) == CHOOSE x \in S : TRUE

StartState(rs, res) ==
    [status |-> "ok", races |-> rs, results |-> res,
     racesAdded |-> <<>>, created |-> <<>>, updated |-> <<>>,
     skipped |-> <<>>, notFound |-> <<>>, journal |-> <<>>,
     meetingsFromApi |-> 0, meetingsMorocco |-> 0]

\* mutant: the scheduler's pass is allowed to add races
AddRacesAlways(addRaces) == TRUE
\* `if (addRaces)` of line 217
CreationStageEnabled(addRaces) == addRaces

\* the loops of the two stages over the first i external races
RECURSIVE CreationStage(_, _, _, _)
CreationStage(st0, d, xs, i) ==
    IF i = 0 THEN st0
    ELSE TheOne({CreateStep(st, d, xs[i]) : st \in {CreationStage(st0, d, xs, i - 1)}})
RECURSIVE ResultStage(_, _, _, _)
ResultStage(st0, d, xs, i) ==
    IF i = 0 THEN st0
    ELSE TheOne({ResultStep(st, d, xs[i]) : st \in {ResultStage(st0, d, xs, i - 1)}})

BothStages(st0, d, addRaces, xs) ==
    ResultStage(IF CreationStageEnabled(addRaces)
                THEN CreationStage(st0, d, xs, Len(xs))
                ELSE st0,
                d, xs, Len(xs))

\* mutant: the status of the programme response is not looked at, and a
\* response without a body is read as an empty programme
runCasaProgrammeSyncUnchecked(rs, res, fetched, d, addRaces) ==
    IF ~fetched.ok THEN StartState(rs, res)
    ELSE BothStages([StartState(rs, res) EXCEPT
                        !.meetingsFromApi = fetched.meetingsFromApi,
                        !.meetingsMorocco = fetched.meetingsMorocco],
                    d, addRaces, fetched.externals)
\* runCasaProgrammeSync({ date, venue, addRaces }) on the store <<rs, res>>,
\* `fetched` being what Fetch gives for the answers of the Casa API: the
\* final pass state; status "error" when the pass threw
runCasaProgrammeSync(rs, res, fetched, d, addRaces) ==
    IF ~fetched.ok THEN [StartState(rs, res) EXCEPT !.status = "error"]
    ELSE BothStages([StartState(rs, res) EXCEPT
                        !.meetingsFromApi = fetched.meetingsFromApi,
                        !.meetingsMorocco = fetched.meetingsMorocco],
                    d, addRaces, fetched.externals)

\* what the caller gets: the CasaSyncResult when the pass returned, nothing
\* but the failure when it threw; the journal is kept in both cases
ReportOf(st) ==
    IF st.status = "ok"
    THEN [status |-> "ok", racesAdded |-> st.racesAdded, created |-> st.created,
          updated |-> st.updated, skipped |-> st.skipped, notFound |-> st.notFound,
          meetingsFromApi |-> st.meetingsFromApi, meetingsMorocco |-> st.meetingsMorocco,
          journal |-> st.journal]
    ELSE [status |-> "error", racesAdded |-> <<>>, created |-> <<>>,
          updated |-> <<>>, skipped |-> <<>>, notFound |-> <<>>,
          meetingsFromApi |-> 0, meetingsMorocco |-> 0,
          journal |-> st.journal]
NoReport ==
    [status |-> "none", racesAdded |-> <<>>, created |-> <<>>,
     updated |-> <<>>, skipped |-> <<>>, notFound |-> <<>>,
     meetingsFromApi |-> 0, meetingsMorocco |-> 0, journal |-> <<>>]

(***************************************************************************)
(* The Casa API answers the model draws from, and the stores it starts in. *)
(***************************************************************************)
FeedRace(id, code, finished, finishOrder) ==
    [t |-> "obj", id |-> id, code |-> JsStr(code),
     name |-> JsStr(<<"P", "r", "i", "x", " ", DigitChar(id)>>),
     time_hm |-> JsStr(<<"1", "4", ":", "3", "0">>),
     distance |-> JsNum(1600),
     finished |-> finished, finish_order |-> finishOrder,
     pursecurrency |-> JsUndef]
Meeting(track, country, rs) == [track |-> JsStr(track), country |-> country, races |-> rs]
Runner(number, horse) ==
    [t |-> "obj", number |-> number, horse_name |-> JsStr(horse),
     jockey_name |-> JsUndef, weight |-> JsNum(57)]
Details(prize, runners, temp) ==
    [ok |-> TRUE, prize |-> prize, runners |-> runners, weather_temp |-> temp]
Api(meetings, details) == [ok |-> TRUE, meetings |-> meetings, details |-> details]

T_ANFA == <<"A", "N", "F", "A">>
T_CasaBlanca == <<"C", "a", "s", "a", " ", "b", "l", "a", "n", "c", "a">>
T_ElJadida == <<"E", "l", " ", "J", "a", "d", "i", "d", "a">>
T_Eljadida == <<"E", "l", "j", "a", "d", "i", "d", "a">>
T_ElJadidaWide == <<"E", "l", " ", " ", "J", "a", "d", "i", "d", "a">>
T_Settat == <<" ", "S", "e", "t", "t", "a", "t">>
T_Fontainebleau == <<"F", "o", "n", "t", "a", "i", "n", "e", "b", "l", "e", "a", "u">>
Country_MA == JsStr(<<"M", "A">>)

Prize_1500_DH == JsStr(<<"1", " ", "5", "0", "0", " ", "D", "H">>)
Prize_abc == JsStr(<<"a", "b", "c">>)

\* Casablanca with a finished and an unfinished race, and a French meeting
\* that carries Morocco's country marker
Feed_Casablanca ==
    Api(<<Meeting(T_Casablanca, Country_MA,
                  <<FeedRace(1, <<"C", "1">>, TRUE, <<JsObj(JsStr(<<"4">>)), JsObj(JsNum(7))>>),
                    FeedRace(2, <<"C", "2">>, FALSE, <<>>)>>),
          Meeting(T_Fontainebleau, Country_MA,
                  <<FeedRace(3, <<"C", "1">>, TRUE, <<JsNum(1), JsNum(2)>>)>>)>>,
        (1 :> Details(Prize_1500_DH, <<Runner(JsStr(<<"4">>), <<"A">>), Runner(JsNum(7), <<" ">>)>>, JsNum(21)))
        @@ (3 :> Details(Prize_1500_DH, <<Runner(JsNum(1), <<"B">>)>>, JsUndef)))

\* the same venue under two alias spellings, with a later finish order
Feed_Anfa ==
    Api(<<Meeting(T_ANFA, JsUndef,
                  <<FeedRace(1, <<"c", "1">>, TRUE, <<JsNum(7), JsNum(4)>>)>>),
          Meeting(T_Casablanca, Country_MA,
                  <<FeedRace(1, <<"C", "1">>, TRUE, <<JsNum(7), JsNum(4), JsNum(2)>>)>>)>>,
        (1 :> Details(Prize_abc, <<>>, JsUndef)))

\* El Jadida under its two allow-listed spellings
Feed_ElJadida ==
    Api(<<Meeting(T_ElJadida, Country_MA,
                  <<FeedRace(4, <<"C", "1">>, TRUE, <<JsNum(1)>>)>>),
          Meeting(T_Eljadida, Country_MA,
                  <<FeedRace(5, <<"C", "1">>, TRUE, <<JsNum(2)>>)>>),
          Meeting(T_ElJadidaWide, Country_MA,
                  <<FeedRace(6, <<"C", "1">>, TRUE, <<JsNum(3)>>)>>)>>,
        <<>>)

\* a spelling that is on the allow-list only once its whitespace is removed;
\* its second race is not finished and has a code without digits, its third
\* is marked finished and carries no finish order
Feed_CasaBlanca ==
    Api(<<Meeting(T_CasaBlanca, JsUndef,
                  <<FeedRace(1, <<"C", "3">>, TRUE, <<JsNum(2), JsNum(1)>>),
                    FeedRace(9, <<"x">>, FALSE, <<>>),
                    FeedRace(5, <<"C", "4">>, TRUE, <<>>)>>)>>,
        <<>>)

\* malformed records: no race number, no usable finish order, a failing
\* detail fetch
Feed_Settat ==
    Api(<<Meeting(T_Settat, Country_MA,
                  <<FeedRace(6, <<"C">>, TRUE, <<JsNum(1)>>),
                    FeedRace(7, <<"C", "5">>, TRUE, <<JsObj(JsStr(<<"x">>)), JsNum(0)>>),
                    FeedRace(8, <<"6">>, TRUE, <<JsNum(3)>>)>>)>>,
        (8 :> NoDetails))

\* a null entry in a meeting's race list, after a good one
Feed_Broken ==
    Api(<<Meeting(T_Settat, Country_MA,
                  <<FeedRace(8, <<"C", "6">>, TRUE, <<JsNum(5)>>), JsNull>>)>>,
        <<>>)

\* the programme endpoint is down or answers a non-success status
Feed_Down == [ok |-> FALSE, meetings |-> <<>>, details |-> <<>>]

\* the situations of the external API, by name, and what it answers in each
Programme ==
    [Casablanca |-> Feed_Casablanca, Anfa |-> Feed_Anfa, ElJadida |-> Feed_ElJadida,
     CasaBlanca |-> Feed_CasaBlanca, Settat |-> Feed_Settat, Broken |-> Feed_Broken,
     Down |-> Feed_Down]
Feeds == DOMAIN Programme
\* what a pass obtains in each situation
Fetched == [f \in Feeds |-> Fetch(Programme[f])]

Payout_A == ("4" :> 35)
Payout_B == ("4-7" :> 120)

\* POST /api/v1/races: _id = `${dateStr}-${race_number}`
manualRaceId(dateMs, raceNumber) == DateStr(DayOf(dateMs)) \o <<"-">> \o NumStr(raceNumber)
ManualRace(dateMs, hippodrome, raceNumber) ==
    [id |-> manualRaceId(dateMs, raceNumber),
     date |-> dateMs,
     hippodrome |-> hippodrome,
     race_number |-> raceNumber,
     time |-> <<"1", "5", ":", "0", "0">>,
     distance |-> 2000,
     title |-> <<"G", "P">>,
     purse |-> 900,
     pursecurrency |-> DEFAULT_CURRENCY,
     participants |-> <<[number |-> 1, horse |-> <<"Z">>, jockey |-> <<"J">>, weight |-> 55]>>]

Noon == MsPerDay \div 2
ManualVenues == {S_casablanca}
ManualNumbers == {1}

InitialStores ==
    { [races |-> <<>>, results |-> <<>>],
      [races |-> <<ManualRace(DateStart(1) + Noon, S_casablanca, 1),
                   ManualRace(DateStart(1), <<"S", "e", "t", "t", "a", "t">>, 6)>>,
       results |-> <<[race_id |-> manualRaceId(DateStart(1), 1), arrival |-> <<4>>,
                      rapports |-> Payout_A, simple |-> Payout_A,
                      couple |-> Payout_B, trio |-> EmptyMap]>>] }

(***************************************************************************)
(* Actions.                                                                *)
(***************************************************************************)
Op(kind, d, addRaces, success) ==
    [kind |-> kind, date |-> d, addRaces |-> addRaces, success |-> success]

Init ==
    /\ \E s \in InitialStores : races = s.races /\ results = s.results
    /\ feed \in Feeds
    /\ today = 1
    /\ last = Op("none", 0, FALSE, TRUE)
    /\ report = NoReport
    /\ sched \in [enabled : BOOLEAN, started : {FALSE}, armed : {FALSE}, alive : {TRUE},
                  tickBit : {0}, logged : {FALSE}, prevFailed : {FALSE}]
    /\ nops = 0
    /\ input = <<>>
    /\ output = NotRun
    /\ running = <<>>

\* GET /api/v1/sync/casa-programme?date=..&add_races=..  (lines 337-353)
SyncRequest(d, addRaces) ==
    /\ nops < MaxOps
    /\ \E st \in {runCasaProgrammeSync(races, results, Fetched[feed], d, addRaces)} :
          /\ races' = st.races
          /\ results' = st.results
          /\ report' = ReportOf(st)
          /\ last' = Op("sync", d, addRaces, st.status = "ok")
    /\ nops' = nops + 1
    /\ UNCHANGED <<feed, today, sched, input, output, running>>

\* server.ts: the literal addRaces: false of run()
SCHEDULED_ADD_RACES == FALSE

\* mutant: a rejected pass is not caught; the unhandled rejection ends the
\* process and with it the timer
OnRejectedCrash(sc) == [sc EXCEPT !.alive = FALSE, !.armed = FALSE]
\* .catch((err) => console.error('[Auto-sync]', err))
OnRejected(sc) == [sc EXCEPT !.logged = TRUE]

\* server.ts run(): one scheduled pass for today's date
RunScheduled(sc) ==
    LET ran == [sc EXCEPT !.tickBit = 1 - @, !.logged = FALSE,
                          !.prevFailed = (last.kind = "tick" /\ ~last.success)]
    IN \E st \in {runCasaProgrammeSync(races, results, Fetched[feed], today, SCHEDULED_ADD_RACES)} :
          /\ races' = st.races
          /\ results' = st.results
          /\ report' = ReportOf(st)
          /\ last' = Op("tick", today, SCHEDULED_ADD_RACES, st.status = "ok")
          /\ sched' = IF st.status = "ok" THEN ran ELSE OnRejected(ran)

\* mutant: startAutoSync arms the timer and leaves the first run to it
StartServerDeferred ==
    /\ ~sched.started
    /\ sched' = [sched EXCEPT !.started = TRUE, !.armed = sched.enabled]
    /\ UNCHANGED <<races, results, report, last>>
    /\ UNCHANGED <<feed, today, nops, input, output, running>>
\* server.ts: app.listen callback -> startAutoSync()
StartServer ==
    /\ ~sched.started
    /\ IF sched.enabled
       THEN RunScheduled([sched EXCEPT !.started = TRUE, !.armed = TRUE])
       ELSE /\ sched' = [sched EXCEPT !.started = TRUE]
            /\ UNCHANGED <<races, results, report, last>>
    /\ UNCHANGED <<feed, today, nops, input, output, running>>

\* an interval tick of setInterval(run, AUTO_SYNC_INTERVAL_MS)
Tick ==
    /\ sched.armed
    /\ sched.alive
    /\ RunScheduled(sched)
    /\ UNCHANGED <<feed, today, nops, input, output, running>>

\* the external programme changes
FeedChange ==
    /\ nops < MaxOps
    /\ feed' \in Feeds \ {feed}
    /\ last' = Op("feed", 0, FALSE, TRUE)
    /\ nops' = nops + 1
    /\ UNCHANGED <<races, results, today, report, sched, input, output, running>>

\* midnight UTC passes
AdvanceDay ==
    /\ nops < MaxOps
    /\ today + 1 \in Days
    /\ today' = today + 1
    /\ last' = Op("midnight", 0, FALSE, TRUE)
    /\ nops' = nops + 1
    /\ UNCHANGED <<races, results, feed, report, sched, input, output, running>>

\* POST /api/v1/races (routes/races.ts lines 91-116)
ManualCreateRace(dateMs, hippodrome, raceNumber) ==
    /\ nops < MaxOps
    /\ IF FindRaceById(races, manualRaceId(dateMs, raceNumber)) # NotFound
       THEN /\ last' = Op("createRace", DayOf(dateMs), FALSE, FALSE)
            /\ UNCHANGED races
       ELSE /\ last' = Op("createRace", DayOf(dateMs), FALSE, TRUE)
            /\ races' = Append(races, ManualRace(dateMs, hippodrome, raceNumber))
    /\ nops' = nops + 1
    /\ UNCHANGED <<results, feed, today, report, sched, input, output, running>>

\* { $set: req.body } with a body of the four payout maps
SetPayouts(result, maps) ==
    [result EXCEPT !.rapports = maps.rapports, !.simple = maps.simple,
                   !.couple = maps.couple, !.trio = maps.trio]
\* PUT /api/v1/results/:race_id with the four payout maps (routes/results.ts
\* lines 88-104): findOneAndUpdate({ race_id }, { $set: req.body })
ManualUpdatePayouts(raceId, maps) ==
    /\ nops < MaxOps
    /\ LET k == FindResult(results, raceId)
       IN IF k = NotFound
          THEN /\ last' = Op("updateResult", 0, FALSE, FALSE)
               /\ UNCHANGED results
          ELSE /\ last' = Op("updateResult", 0, FALSE, TRUE)
               /\ results' = [results EXCEPT ![k] = SetPayouts(@, maps)]
    /\ nops' = nops + 1
    /\ UNCHANGED <<races, feed, today, report, sched, input, output, running>>

PayoutBodies ==
    { [rapports |-> Payout_B, simple |-> Payout_A, couple |-> EmptyMap, trio |-> Payout_B] }

Next ==
    \/ \E d \in Days, addRaces \in BOOLEAN : SyncRequest(d, addRaces)
    \/ StartServer
    \/ Tick
    \/ FeedChange
    \/ AdvanceDay
    \/ \E d \in Days, h \in ManualVenues, n \in ManualNumbers :
            ManualCreateRace(DateStart(d) + Noon, h, n)
    \/ \E i \in 1..Len(races), maps \in PayoutBodies :
            ManualUpdatePayouts(races[i].id, maps)

Spec == Init /\ [][Next]_vars
\* setInterval fires its callback again and again while the timer is armed and
\* the process alive.  TimerFires is the Tick step as the scheduler's record
\* shows it: the steps of Next that satisfy it are exactly the Tick steps, and
\* it is enabled exactly when Tick is.
TimerFires ==
    /\ sched.armed
    /\ sched.alive
    /\ \E l, p \in BOOLEAN :
          sched' = [sched EXCEPT !.tickBit = 1 - @, !.logged = l, !.prevFailed = p]
FairSpec == Spec /\ WF_sched(TimerFires)

(***************************************************************************)
(* The administrator's routes that write the same store: routes/races.ts   *)
(* (PUT, DELETE), routes/upload.ts (race-json) and routes/results.ts       *)
(* (POST), next to the race POST and the on-demand pass.                   *)
(***************************************************************************)
\* the fields a PUT /api/v1/races/:id body may carry, as validated and trimmed
RaceBodies ==
    { [hippodrome |-> T_Casablanca],
      [race_number |-> 1],
      [date |-> DateStart(2)],
      [title |-> <<"G", "P", " ", "2">>, purse |-> 1000] }
\* { $set: req.body }
SetFields(doc, body) ==
    [f \in DOMAIN doc |-> IF f \in DOMAIN body THEN body[f] ELSE doc[f]]

\* PUT /api/v1/races/:id (routes/races.ts lines 139-160)
ManualUpdateRace(id, body) ==
    /\ nops < MaxOps
    /\ LET i == FindRaceById(races, id)
       IN IF i = NotFound
          THEN /\ last' = Op("updateRace", 0, FALSE, FALSE)
               /\ UNCHANGED races
          ELSE /\ last' = Op("updateRace", 0, FALSE, TRUE)
               /\ races' = [races EXCEPT ![i] = SetFields(@, body)]
    /\ nops' = nops + 1
    /\ UNCHANGED <<results, feed, today, report, sched, input, output, running>>

\* DELETE /api/v1/races/:id (routes/races.ts lines 166-178)
RemoveAt(seq, i) == SubSeq(seq, 1, i - 1) \o SubSeq(seq, i + 1, Len(seq))
ManualDeleteRace(id) ==
    /\ nops < MaxOps
    /\ LET i == FindRaceById(races, id)
       IN IF i = NotFound
          THEN /\ last' = Op("deleteRace", 0, FALSE, FALSE)
               /\ UNCHANGED races
          ELSE /\ last' = Op("deleteRace", 0, FALSE, TRUE)
               /\ races' = RemoveAt(races, i)
    /\ nops' = nops + 1
    /\ UNCHANGED <<results, feed, today, report, sched, input, output, running>>

\* upload.ts formatId
formatId(dateMs, raceNumber) == DateStr(DayOf(dateMs)) \o <<"-">> \o NumStr(raceNumber)
\* the document of Race.create in POST /api/v1/upload/race-json
UploadedRace(dateMs, hippodrome, raceNumber) ==
    [id |-> formatId(dateMs, raceNumber),
     date |-> dateMs,
     hippodrome |-> hippodrome,
     race_number |-> raceNumber,
     time |-> <<"1", "6", ":", "0", "0">>,
     distance |-> 1800,
     title |-> <<"U", "p">>,
     purse |-> 0,
     pursecurrency |-> DEFAULT_CURRENCY,
     participants |-> <<>>]
\* POST /api/v1/upload/race-json (routes/upload.ts lines 19-91)
UploadRaceJson(dateMs, hippodrome, raceNumber) ==
    /\ nops < MaxOps
    /\ IF FindRaceById(races, formatId(dateMs, raceNumber)) # NotFound
       THEN /\ last' = Op("uploadRace", DayOf(dateMs), FALSE, FALSE)
            /\ UNCHANGED races
       ELSE /\ last' = Op("uploadRace", DayOf(dateMs), FALSE, TRUE)
            /\ races' = Append(races, UploadedRace(dateMs, hippodrome, raceNumber))
    /\ nops' = nops + 1
    /\ UNCHANGED <<results, feed, today, report, sched, input, output, running>>

\* the document of Result.create in POST /api/v1/results
ManualResult(raceId, arrival, maps) ==
    [race_id |-> raceId, arrival |-> arrival,
     rapports |-> maps.rapports, simple |-> maps.simple,
     couple |-> maps.couple, trio |-> maps.trio]
\* POST /api/v1/results (routes/results.ts lines 49-75)
ManualCreateResult(raceId, arrival, maps) ==
    /\ nops < MaxOps
    /\ IF FindResult(results, raceId) # NotFound
       THEN /\ last' = Op("createResult", 0, FALSE, FALSE)
            /\ UNCHANGED results
       ELSE /\ last' = Op("createResult", 0, FALSE, TRUE)
            /\ results' = Append(results, ManualResult(raceId, arrival, maps))
    /\ nops' = nops + 1
    /\ UNCHANGED <<races, feed, today, report, sched, input, output, running>>

RaceIds(rs) == {rs[i].id : i \in 1..Len(rs)}
\* race identifiers an administrator may name: those stored, and one that
\* no Race carries
OrphanId == <<"2", "0", "2", "4", "-", "0", "1", "-", "0", "2", "-", "9">>
NamedIds == RaceIds(races) \cup {OrphanId}
ManualArrivals == {<<3, 1>>}
UploadVenues == {S_casablanca, S_rabat}

AdminNext ==
    \/ \E d \in Days, addRaces \in BOOLEAN : SyncRequest(d, addRaces)
    \/ \E d \in Days, h \in ManualVenues, n \in ManualNumbers :
            ManualCreateRace(DateStart(d) + Noon, h, n)
    \/ \E id \in NamedIds, body \in RaceBodies : ManualUpdateRace(id, body)
    \/ \E id \in NamedIds : ManualDeleteRace(id)
    \/ \E h \in UploadVenues, n \in ManualNumbers : UploadRaceJson(DateStart(1), h, n)
    \/ \E id \in NamedIds, arrival \in ManualArrivals, maps \in PayoutBodies :
            ManualCreateResult(id, arrival, maps)
AdminSpec == Init /\ [][AdminNext]_vars

(***************************************************************************)
(* Requests in flight.  runCasaProgrammeSync awaits each store call, and   *)
(* Node runs another request, or the next timer callback, at every await:  *)
(* the store operations of two passes and of a POST /api/v1/results        *)
(* interleave.  A pass in flight is at one of its store calls (pc), at     *)
(* the external race i; `running` holds the passes, the manual request,    *)
(* and the store the first of them started from.                           *)
(***************************************************************************)
Passes == {1, 2}

IdlePass ==
    [pc |-> "idle", i |-> 0, addRaces |-> FALSE, raceId |-> <<>>, existing |-> FALSE,
     racesAdded |-> <<>>, created |-> <<>>, updated |-> <<>>, skipped |-> <<>>,
     notFound |-> <<>>]
IdleManual == [pc |-> "idle", raceId |-> <<>>, code |-> 0]

CreationCalls == {"c_find", "c_byid", "c_create", "c_enrich"}
ResultCalls == {"r_find", "r_enrich", "r_findres", "r_write"}
InFlight(p) == p.pc \in CreationCalls \cup ResultCalls
Ended(p) == p.pc \in {"done", "failed"}

\* mutant: the Result collection has no unique index on race_id
InsertResultUnindexed(res, doc) == [ok |-> TRUE, results |-> Append(res, doc)]
\* Result.create under ResultSchema's race_id: { unique: true }: the insert
\* of a second document with the same race_id fails (duplicate key)
InsertResult(res, doc) ==
    IF FindResult(res, doc.race_id) # NotFound
    THEN [ok |-> FALSE, results |-> res]
    ELSE [ok |-> TRUE, results |-> Append(res, doc)]
\* Race.create: _id is unique
InsertRace(rs, doc) ==
    IF FindRaceById(rs, doc.id) # NotFound
    THEN [ok |-> FALSE, races |-> rs]
    ELSE [ok |-> TRUE, races |-> Append(rs, doc)]

\* lines 199-207 and 217: the pass after its programme fetch
Begin(p, fetched, addRaces) ==
    IF ~fetched.ok THEN [p EXCEPT !.pc = "failed", !.addRaces = addRaces]
    ELSE IF fetched.externals = <<>> THEN [p EXCEPT !.pc = "done", !.addRaces = addRaces]
    ELSE [p EXCEPT !.pc = IF CreationStageEnabled(addRaces) THEN "c_find" ELSE "r_find",
                   !.i = 1, !.addRaces = addRaces]
\* `continue`, or the end of the loop body: on to the next external race,
\* to the result stage, or to the return
Continue(p, xs) ==
    IF p.i < Len(xs)
    THEN [p EXCEPT !.i = @ + 1, !.pc = IF p.pc \in CreationCalls THEN "c_find" ELSE "r_find"]
    ELSE IF p.pc \in CreationCalls THEN [p EXCEPT !.i = 1, !.pc = "r_find"]
    ELSE [p EXCEPT !.pc = "done"]
Thrown(p) == [p EXCEPT !.pc = "failed"]

Kept(p, rs, res) == [p |-> p, races |-> rs, results |-> res]

\* the next store call of the pass p on the store <<rs, res>>, with the
\* statements that lead to it and follow it up to the next await
\* lines 223-230
AtCFind(p, rs, res, xs, d, x) ==
    IF x.race.t = "null" THEN Kept(Thrown(p), rs, res)
    ELSE IF x.raceNumber <= 0 THEN Kept(Continue(p, xs), rs, res)
    ELSE IF FindRace(rs, d, x.track, x.raceNumber) # NotFound THEN Kept(Continue(p, xs), rs, res)
    ELSE Kept([p EXCEPT !.pc = "c_byid"], rs, res)
\* lines 231-232
AtCById(p, rs, res, xs, d, x) ==
    IF FindRaceById(rs, casaRaceId(d, x.raceNumber, x.track)) # NotFound
    THEN Kept(Continue(p, xs), rs, res)
    ELSE Kept([p EXCEPT !.pc = "c_create"], rs, res)
\* lines 233-249
AtCCreate(p, rs, res, xs, d, x) ==
    LET ins == InsertRace(rs, NewCasaRace(d, x.track, x.raceNumber, x.race))
    IN IF ~ins.ok THEN Kept(Thrown(p), rs, res)
       ELSE Kept(IF HasEnrichment(x.details)
                 THEN [p EXCEPT !.pc = "c_enrich",
                                !.racesAdded = Append(@, casaRaceId(d, x.raceNumber, x.track))]
                 ELSE [Continue(p, xs) EXCEPT
                                !.racesAdded = Append(@, casaRaceId(d, x.raceNumber, x.track))],
                 ins.races, res)
\* Race.findByIdAndUpdate(id, { $set: update }): nothing when no Race has the id
UpdateById(rs, id, details) ==
    IF FindRaceById(rs, id) = NotFound THEN rs
    ELSE [rs EXCEPT ![FindRaceById(rs, id)] = ApplyRaceUpdate(@, details)]
\* lines 250-255
AtCEnrich(p, rs, res, xs, d, x) ==
    Kept(Continue(p, xs), UpdateById(rs, casaRaceId(d, x.raceNumber, x.track), x.details), res)
\* lines 266-289
AtRFind(p, rs, res, xs, d, x) ==
    IF x.race.t = "null" THEN Kept(Thrown(p), rs, res)
    ELSE IF ~x.race.finished \/ x.race.finish_order = <<>> THEN Kept(Continue(p, xs), rs, res)
    ELSE IF x.raceNumber <= 0
    THEN Kept([Continue(p, xs) EXCEPT !.skipped = Append(@, SkippedText(x.track, x.race.code))],
              rs, res)
    ELSE IF x.arrival = <<>>
    THEN Kept([Continue(p, xs) EXCEPT !.skipped = Append(@, SkippedEmptyText(x.track, x.race.code))],
              rs, res)
    ELSE IF FindRace(rs, d, x.track, x.raceNumber) = NotFound
    THEN Kept([Continue(p, xs) EXCEPT
                    !.notFound = Append(@, NotFoundText(x.track, x.raceNumber, x.race.name))],
              rs, res)
    ELSE Kept([p EXCEPT !.raceId = rs[FindRace(rs, d, x.track, x.raceNumber)].id,
                        !.pc = IF HasEnrichment(x.details) THEN "r_enrich" ELSE "r_findres"],
              rs, res)
\* lines 290-297
AtREnrich(p, rs, res, xs, d, x) ==
    Kept([p EXCEPT !.pc = "r_findres"], UpdateById(rs, p.raceId, x.details), res)
\* line 298
AtRFindRes(p, rs, res, xs, d, x) ==
    Kept([p EXCEPT !.existing = (FindResult(res, p.raceId) # NotFound), !.pc = "r_write"], rs, res)
\* lines 299-312; Result.updateOne changes nothing when no Result has the race_id
AtRWrite(p, rs, res, xs, d, x) ==
    IF p.existing
    THEN Kept([Continue(p, xs) EXCEPT !.updated = Append(@, p.raceId)],
              rs,
              IF FindResult(res, p.raceId) = NotFound THEN res
              ELSE [res EXCEPT ![FindResult(res, p.raceId)] = SetArrival(@, x.arrival)])
    ELSE LET ins == InsertResult(res, NewResult(p.raceId, x.arrival))
         IN IF ~ins.ok THEN Kept(Thrown(p), rs, res)
            ELSE Kept([Continue(p, xs) EXCEPT !.created = Append(@, p.raceId)], rs, ins.results)

StoreCall(p, rs, res, xs, d) ==
    CASE p.pc = "c_find" -> AtCFind(p, rs, res, xs, d, xs[p.i])
      [] p.pc = "c_byid" -> AtCById(p, rs, res, xs, d, xs[p.i])
      [] p.pc = "c_create" -> AtCCreate(p, rs, res, xs, d, xs[p.i])
      [] p.pc = "c_enrich" -> AtCEnrich(p, rs, res, xs, d, xs[p.i])
      [] p.pc = "r_find" -> AtRFind(p, rs, res, xs, d, xs[p.i])
      [] p.pc = "r_enrich" -> AtREnrich(p, rs, res, xs, d, xs[p.i])
      [] p.pc = "r_findres" -> AtRFindRes(p, rs, res, xs, d, xs[p.i])
      [] p.pc = "r_write" -> AtRWrite(p, rs, res, xs, d, xs[p.i])

OverlapFrame == UNCHANGED <<feed, today, last, report, sched, nops, input, output>>

\* a pass starts: pass 1 is a tick of the scheduler, pass 2 a tick or an
\* on-demand request for the same date
StartPass(id, addRaces) ==
    /\ running.pass[id].pc = "idle"
    /\ id = 2 => running.pass[1].pc # "idle"
    /\ id = 1 => addRaces = SCHEDULED_ADD_RACES
    /\ running' = [running EXCEPT
                      !.pass[id] = Begin(IdlePass, Fetched[feed], addRaces),
                      !.overlapped = @ \/ \E o \in Passes : InFlight(running.pass[o])]
    /\ UNCHANGED <<races, results>>
    /\ OverlapFrame

\* the pass id gets the answer of the store call it awaits
PassProceeds(id) ==
    /\ InFlight(running.pass[id])
    /\ \E out \in {StoreCall(running.pass[id], races, results, Fetched[feed].externals, today)} :
          /\ running' = [running EXCEPT !.pass[id] = out.p]
          /\ races' = out.races
          /\ results' = out.results
    /\ OverlapFrame

\* POST /api/v1/results arrives (routes/results.ts lines 56-57): the
\* handler awaits Result.findOne
ManualArrives(raceId) ==
    /\ running.manual.pc = "idle"
    /\ running.pass[1].pc # "idle"
    /\ running' = [running EXCEPT !.manual = [pc |-> "m_check", raceId |-> raceId, code |-> 0]]
    /\ UNCHANGED <<races, results>>
    /\ OverlapFrame
\* lines 57-61
ManualChecks ==
    /\ running.manual.pc = "m_check"
    /\ running' = [running EXCEPT !.manual =
                      IF FindResult(results, running.manual.raceId) # NotFound
                      THEN [@ EXCEPT !.pc = "done", !.code = 409]
                      ELSE [@ EXCEPT !.pc = "m_write"]]
    /\ UNCHANGED <<races, results>>
    /\ OverlapFrame
\* lines 62-74: Result.create, 201, or the catch and its 500
ManualWrites ==
    /\ running.manual.pc = "m_write"
    /\ \E arrival \in ManualArrivals, maps \in PayoutBodies :
       \E ins \in {InsertResult(results, ManualResult(running.manual.raceId, arrival, maps))} :
          /\ results' = ins.results
          /\ running' = [running EXCEPT !.manual.pc = "done",
                                        !.manual.code = IF ins.ok THEN 201 ELSE 500]
    /\ UNCHANGED races
    /\ OverlapFrame

OverlapInit ==
    /\ \E s \in InitialStores :
          /\ races = s.races
          /\ results = s.results
          /\ running = [origin |-> s, overlapped |-> FALSE,
                        pass |-> [id \in Passes |-> IdlePass], manual |-> IdleManual]
    /\ feed \in Feeds
    /\ today = 1
    /\ last = Op("none", 0, FALSE, TRUE)
    /\ report = NoReport
    /\ sched = <<>>
    /\ nops = 0
    /\ input = <<>>
    /\ output = NotRun
OverlapNext ==
    \/ \E id \in Passes, addRaces \in BOOLEAN : StartPass(id, addRaces)
    \/ \E id \in Passes : PassProceeds(id)
    \/ \E raceId \in NamedIds : ManualArrives(raceId)
    \/ ManualChecks
    \/ ManualWrites
OverlapSpec == OverlapInit /\ [][OverlapNext]_vars

\* PUT /api/v1/results/:race_id with the four payout maps arrives while a
\* pass is under way (routes/results.ts lines 90-99).  findOneAndUpdate is
\* one store call; the request's record keeps what it wrote and the store
\* call the first pass was waiting for at that moment.
EditArrives(raceId, maps) ==
    /\ running.manual.pc = "idle"
    /\ running.pass[1].pc # "idle"
    /\ \E k \in {FindResult(results, raceId)} :
          /\ results' = IF k = NotFound THEN results
                        ELSE [results EXCEPT ![k] = SetPayouts(@, maps)]
          /\ running' = [running EXCEPT !.manual =
                            [pc |-> "done", raceId |-> raceId,
                             code |-> IF k = NotFound THEN 404 ELSE 200,
                             maps |-> maps,
                             during |-> running.pass[1].pc,
                             awaited |-> running.pass[1].raceId]]
    /\ UNCHANGED races
    /\ OverlapFrame
EditNext ==
    \/ \E id \in Passes, addRaces \in BOOLEAN : StartPass(id, addRaces)
    \/ \E id \in Passes : PassProceeds(id)
    \/ \E raceId \in NamedIds, maps \in PayoutBodies : EditArrives(raceId, maps)
EditSpec == OverlapInit /\ [][EditNext]_vars

(***************************************************************************)
(* Specifications that exercise the pure functions of the normaliser and   *)
(* of the scheduler's configuration on bounded inputs.  The store and the  *)
(* scheduler stay idle in them.                                            *)
(***************************************************************************)
StringsUpTo(alphabet, n) == UNION {[1..k -> alphabet] : k \in 0..n}
SeqsUpTo(S, n) == UNION {[1..k -> S] : k \in 0..n}

PureIdle ==
    /\ races = <<>> /\ results = <<>> /\ feed = "Down" /\ today = 0
    /\ last = <<>> /\ report = <<>> /\ sched = <<>> /\ nops = 0
    /\ running = <<>>
PureFrame == UNCHANGED <<races, results, feed, today, last, report, sched, nops, input, running>>

\* --- race codes ---------------------------------------------------------
CodeAlphabet == {"C", "c", "0", "1", "8", "x", " "}
CodeInputs ==
    {JsUndef, JsNull, JsNum(8)} \cup {JsStr(s) : s \in StringsUpTo(CodeAlphabet, MaxCodeLen)}

CodeInit == PureIdle /\ input \in CodeInputs /\ output = NotRun
ParseCode ==
    /\ ~output.done
    /\ output' = Ran(raceNumberFromCode(input))
    /\ PureFrame
CodeNext == ParseCode
CodeSpec == CodeInit /\ [][CodeNext]_vars

\* --- the Matcher -----------------------------------------------------------
\* Stores of up to MaxStoreLen races whose dates lie on both edges of the
\* window of day 1 and just outside it, and whose venues differ from the
\* track by case, by one character where the track has a dot, and by a
\* further character at the end.
MaxStoreLen == 2
V_a_b == <<"a", ".", "b">>
MatcherTracks == {V_a_b, <<"A", ".", "b">>}
MatcherVenues == {V_a_b, <<"a", "x", "b">>, <<"A", ".", "B">>, <<"a", ".", "b", "c">>}
MatcherDates == {DateStart(1) - 1, DateStart(1), DateEnd(1), DateEnd(1) + 1}
MatcherNumbers == {1, 2}
MatcherRaces ==
    {[ManualRace(DateStart(1), h, n) EXCEPT !.date = ms] :
        ms \in MatcherDates, h \in MatcherVenues, n \in MatcherNumbers}
\* identifiers are unique in a store
MatcherStores ==
    {[k \in 1..Len(rs) |-> [rs[k] EXCEPT !.id = NatStr(k)]] :
        rs \in SeqsUpTo(MatcherRaces, MaxStoreLen)}
MatcherInit ==
    /\ PureIdle
    /\ input \in [rs : MatcherStores, track : MatcherTracks, raceNumber : {1}]
    /\ output = NotRun
MatchRace ==
    /\ ~output.done
    /\ output' = Ran(FindRace(input.rs, 1, input.track, input.raceNumber))
    /\ PureFrame
MatcherNext == MatchRace
MatcherSpec == MatcherInit /\ [][MatcherNext]_vars

\* --- finish orders -------------------------------------------------------
\* One entry of a finish order as the feed sends it: a runner number n sent
\* bare, as { number: n } or as { number: "<n>" }, or an entry that carries
\* no runner number at all.
RunnerNumbers == {-1, 0, 4, 12}
FinishEntries ==
    [kind : {"bare", "objNum", "objStr"}, n : RunnerNumbers]
        \cup [kind : {"objText", "objNoNumber", "null", "bareText"}, n : {0}]

\* the JavaScript value the feed holds for an entry
EncodeEntry(e) ==
    CASE e.kind = "bare" -> JsNum(e.n)
      [] e.kind = "objNum" -> JsObj(JsNum(e.n))
      [] e.kind = "objStr" -> JsObj(JsStr(NumStr(e.n)))
      [] e.kind = "objText" -> JsObj(JsStr(<<"x">>))
      [] e.kind = "objNoNumber" -> JsObj(JsUndef)
      [] e.kind = "null" -> JsNull
      [] e.kind = "bareText" -> JsStr(<<"5">>)
EncodeFinishOrder(es) == [i \in 1..Len(es) |-> EncodeEntry(es[i])]

ArrivalInit == PureIdle /\ input \in SeqsUpTo(FinishEntries, MaxFinishLen) /\ output = NotRun
NormaliseFinishOrder ==
    /\ ~output.done
    /\ output' = Ran(arrivalFromFinishOrder(EncodeFinishOrder(input)))
    /\ PureFrame
ArrivalNext == NormaliseFinishOrder
ArrivalSpec == ArrivalInit /\ [][ArrivalNext]_vars

\* --- the configured interval ----------------------------------------------
EnvAlphabet == {"6", "0", "x", " ", "-"}
EnvSamples ==
    { <<"5", "9", "9", "9", "9">>, <<"6", "0", "0", "0", "0">>, <<"6", "0", "0", "0", "1">>,
      <<"1", "2", "0", "0", "0", "0">>, <<"6", "0", "0", "0", "0", "0">>,
      <<"1", "0", "m", "i", "n">>, <<"9", "0", "0", "0", "0", "s">>,
      <<"a", "b", "c">> }
EnvInputs ==
    {JsUndef} \cup {JsStr(s) : s \in StringsUpTo(EnvAlphabet, MaxEnvLen) \cup EnvSamples}

IntervalInit == PureIdle /\ input \in EnvInputs /\ output = NotRun
\* module load computes AUTO_SYNC_INTERVAL_MS; startAutoSync arms the timer with it
ArmTimer ==
    /\ ~output.done
    /\ output' = Ran([interval |-> AUTO_SYNC_INTERVAL_MS(input),
                      delay |-> TimerDelay(AUTO_SYNC_INTERVAL_MS(input))])
    /\ PureFrame
IntervalNext == ArmTimer
IntervalSpec == IntervalInit /\ [][IntervalNext]_vars

\* --- prize strings ----------------------------------------------------------
PrizeAlphabet == {"1", "5", " ", ".", ",", "D"}
PrizeSamples ==
    { <<"1", " ", "5", "0", "0", " ", "0", "0", "0", " ", "D", "H">>,
      <<"1", "5", "0", "0", "0", ",", "5", "0", " ", "E", "U", "R">>,
      <<"1", "5", "0", "0">>,
      <<"a", "b", "c">>,
      <<"-", "5", " ", "D", "H">>,
      <<"1", ".", "2", ".", "3", " ", "D", "H">>,
      <<"1", "0", " ", "D", "H", " ", "n", "e", "t">> }
PrizeInputs ==
    {JsUndef} \cup {JsStr(s) : s \in StringsUpTo(PrizeAlphabet, MaxPrizeLen) \cup PrizeSamples}

\* the Race the detail response is applied to, and the detail response: the
\* prize string under test, one runner, no temperature
StoredRace == ManualRace(DateStart(1), S_settat, 6)
PrizeApi(prize) == Api(<<>>, (1 :> Details(prize, <<Runner(JsNum(3), <<"A">>)>>, JsUndef)))

PrizeInit == PureIdle /\ input \in PrizeInputs /\ output = NotRun
\* fetchCasaRaceDetails parses the prize; the enrichment block of the pass
\* applies the answer to the stored Race
EnrichFromPrize ==
    /\ ~output.done
    /\ \E details \in {fetchCasaRaceDetails(PrizeApi(input), 1)} :
          output' = Ran([prize |-> details.prize,
                         race |-> IF HasEnrichment(details)
                                  THEN ApplyRaceUpdate(StoredRace, details)
                                  ELSE StoredRace])
    /\ PureFrame
PrizeNext == EnrichFromPrize
PrizeSpec == PrizeInit /\ [][PrizeNext]_vars

\* --- enrichment ------------------------------------------------------------
\* The enrichment block of the two stages, applied to a Race made by hand
\* and to a Race as the creation stage makes it, for detail responses with
\* and without a parsable prize, usable runners and a numeric temperature,
\* and for a failed detail fetch.
EnrichPrizes == {JsUndef, Prize_1500_DH, Prize_abc}
EnrichRunners ==
    { <<>>, <<JsNull>>, <<Runner(JsNum(3), <<"A">>)>>, <<Runner(JsStr(<<"x">>), <<"B">>)>> }
EnrichTemps == {JsUndef, JsNum(21), JsStr(<<"2", "1">>)}
EnrichAnswers ==
    {NoDetails} \cup
    {Details(p, r, t) : p \in EnrichPrizes, r \in EnrichRunners, t \in EnrichTemps}
EnrichRaces ==
    {StoredRace, NewCasaRace(1, T_Casablanca, 2, FeedRace(2, <<"C", "2">>, FALSE, <<>>))}
EnrichInit ==
    /\ PureIdle
    /\ input \in [race : EnrichRaces, answer : EnrichAnswers]
    /\ output = NotRun
EnrichRace ==
    /\ ~output.done
    /\ \E details \in {fetchCasaRaceDetails(Api(<<>>, (1 :> input.answer)), 1)} :
          output' = Ran(Enrich(StartState(<<input.race>>, <<>>), details, 1,
                               "result", <<1, 1>>).races[1])
    /\ PureFrame
EnrichNext == EnrichRace
EnrichSpec == EnrichInit /\ [][EnrichNext]_vars

(***************************************************************************)
(* Vocabulary of the claims about the pass.                                *)
(***************************************************************************)
Range(s) == {s[i] : i \in 1..Len(s)}
IsPass(op) == op.kind \in {"sync", "tick"}
\* the step is a pass: a sync request or a scheduled run
ScheduledStep == sched'.tickBit # sched.tickBit
PassStep == (last'.kind = "sync" /\ nops' # nops) \/ ScheduledStep
JournalAt(journal, pos, stage) ==
    {i \in 1..Len(journal) :
        journal[i].m = pos[1] /\ journal[i].r = pos[2] /\ journal[i].stage = stage}

(***************************************************************************)
(* C1: a pass that directly follows a pass with the same date and the same *)
(* auto-create setting, the feed unchanged and no other writer in between, *)
(* leaves the store as the first pass left it: the same Races, the same    *)
(* Results, the same arrival on every Result.                              *)
(***************************************************************************)
SamePassAgain ==
    /\ PassStep
    /\ IsPass(last)
    /\ last'.date = last.date
    /\ last'.addRaces = last.addRaces
C1_SecondPassIsNoOp ==
    [][SamePassAgain => (races' = races /\ results' = results)]_vars
\* the second of two scheduled passes has just rewritten an arrival
C1_Witness ==
    /\ nops = 0
    /\ last.kind = "tick"
    /\ sched.tickBit = 0
    /\ report.status = "ok"
    /\ report.updated # <<>>
    /\ results # <<>>

(***************************************************************************)
(* C2: a pass leaves the rapports, simple, couple and trio maps of every   *)
(* Result that existed before it exactly as they were, those it updates    *)
(* included; of such a Result only the arrival changes.                    *)
(***************************************************************************)
C2_PayoutMapsPreserved ==
    [][PassStep =>
          \A k \in 1..Len(results) :
              /\ k <= Len(results')
              /\ results'[k] = [results[k] EXCEPT !.arrival = results'[k].arrival]]_vars
\* a Result with manually edited payout maps has just had its arrival updated
C2_Witness ==
    /\ IsPass(last)
    /\ \E k \in 1..Len(results) :
          /\ results[k].race_id \in Range(report.updated)
          /\ results[k].rapports = Payout_A
          /\ results[k].couple = Payout_B
          /\ results[k].arrival = <<4, 7>>

(***************************************************************************)
(* C3: the venue allow-list.  As claimed: a meeting whose venue name,      *)
(* lower-cased and whitespace-collapsed, is not on the allow-list causes   *)
(* no Race or Result write and no skipped or not-found entry in either     *)
(* stage, whatever its country marker.                                     *)
(***************************************************************************)
ListedAsIs(meeting) == NormalTrack(meeting.track) \in MOROCCO_TRACKS
ListedSqueezed(meeting) == RemoveSpaces(NormalTrack(meeting.track)) \in MOROCCO_TRACKS
C3_OffListMeetingIgnored ==
    IsPass(last) =>
        \A i \in 1..Len(report.journal) :
            ListedAsIs(Programme[feed].meetings[report.journal[i].m])

\* C3 as amended: the meetings that cause nothing are those whose venue name
\* is on the allow-list neither as normalised nor with all its whitespace
\* removed.
C3_UnlistedMeetingIgnored ==
    IsPass(last) =>
        \A i \in 1..Len(report.journal) :
            \/ ListedAsIs(Programme[feed].meetings[report.journal[i].m])
            \/ ListedSqueezed(Programme[feed].meetings[report.journal[i].m])
\* a pass has worked on a feed holding an unlisted meeting that carries
\* Morocco's country marker and a finished race
C3_Witness ==
    /\ IsPass(last)
    /\ report.status = "ok"
    /\ report.journal # <<>>
    /\ \E m \in 1..Len(Programme[feed].meetings) :
          /\ ~ListedAsIs(Programme[feed].meetings[m])
          /\ ~ListedSqueezed(Programme[feed].meetings[m])
          /\ Programme[feed].meetings[m].country = Country_MA
          /\ \E r \in 1..Len(Programme[feed].meetings[m].races) : Programme[feed].meetings[m].races[r].finished

(***************************************************************************)
(* C4: two Races created by sync for the same date and race number never   *)
(* belong to two spellings of one physical venue (the Anfa/Casablanca      *)
(* group, El Jadida/Eljadida, Meknes with or without its accent).          *)
(***************************************************************************)
Unaccent(s) == [i \in 1..Len(s) |-> IF s[i] = "e_grave" THEN "e" ELSE s[i]]
VenueKey(track) ==
    LET t == RemoveSpaces(ReplaceSpaceRuns(ToLower(Trim(track)), <<" ">>))
    IN IF t \in {RemoveSpaces(a) : a \in CASABLANCA_ANFA_ALIASES} THEN S_casablanca
       ELSE Unaccent(t)
SyncCreated(race) ==
    race.id = casaRaceId(DayOf(race.date), race.race_number, race.hippodrome)
C4_OneRacePerVenueDateNumber ==
    \A i, j \in 1..Len(races) :
        (/\ i < j
         /\ SyncCreated(races[i])
         /\ SyncCreated(races[j])
         /\ DayOf(races[i].date) = DayOf(races[j].date)
         /\ races[i].race_number = races[j].race_number)
        => VenueKey(races[i].hippodrome) # VenueKey(races[j].hippodrome)

(***************************************************************************)
(* C5: in a pass that returns, the external races of the retained meetings *)
(* that are finished, have a race number >= 1 and a non-empty normalised   *)
(* finish order, and match no Race (none stored before the pass, none      *)
(* added by its creation stage) are, in feed order, exactly the entries of *)
(* the report's notFound list, each naming venue, race number and external *)
(* name; the result stage does nothing else for such a race and no Race    *)
(* matches it after the pass.                                              *)
(***************************************************************************)
\* rs: the Races of after the pass, which are those the result stage sees
UnmatchedAt(x, d, rs) ==
    /\ x.race.t = "obj"
    /\ x.race.finished
    /\ x.raceNumber > 0
    /\ x.arrival # <<>>
    /\ FindRace(rs, d, x.track, x.raceNumber) = NotFound
UnmatchedRaces(d, rs) ==
    LET IsUnmatched(x) == UnmatchedAt(x, d, rs)
    IN SelectSeq(Fetched[feed].externals, IsUnmatched)
C5_UnmatchedIsReported ==
    [][(PassStep /\ report'.status = "ok") =>
          \A U \in {UnmatchedRaces(last'.date, races')} :
             /\ report'.notFound =
                   [k \in 1..Len(U) |-> NotFoundText(U[k].track, U[k].raceNumber, U[k].race.name)]
             /\ \A k \in 1..Len(U) :
                   /\ Cardinality(JournalAt(report'.journal, U[k].pos, "result")) = 1
                   /\ \A e \in JournalAt(report'.journal, U[k].pos, "result") :
                          report'.journal[e].op = "notFound"
                   /\ FindRace(races', last'.date, U[k].track, U[k].raceNumber) = NotFound
             /\ Len(races') = Len(races) + Len(report'.racesAdded)
             /\ Len(results') = Len(results) + Len(report'.created)]_vars
\* a pass has reported the finished races of two meetings as not found
C5_Witness ==
    /\ IsPass(last)
    /\ report.status = "ok"
    /\ Len(report.notFound) = 2
    /\ report.created = <<>>
    /\ report.updated = <<>>

(***************************************************************************)
(* C6: a pass with auto-create disabled leaves the set of Race identifiers *)
(* as it was, and every scheduled pass runs with auto-create disabled.     *)
(***************************************************************************)
C6_NoRaceWithoutAutoCreate ==
    [][/\ (PassStep /\ ~last'.addRaces) =>
              (RaceIds(races') = RaceIds(races) /\ Len(races') = Len(races))
       /\ ScheduledStep =>
              (/\ last'.kind = "tick"
               /\ ~last'.addRaces
               /\ RaceIds(races') = RaceIds(races)
               /\ Len(races') = Len(races))]_vars
\* a scheduled pass has met an empty catalogue and a finished race, and has
\* left the catalogue empty
C6_Witness ==
    /\ last.kind = "tick"
    /\ ~last.addRaces
    /\ report.status = "ok"
    /\ report.notFound # <<>>
    /\ races = <<>>

(***************************************************************************)
(* C7: after a scheduled pass that failed (the feed is down, or the pass   *)
(* threw on a malformed record) the failure is logged, the timer is armed  *)
(* and the process alive; and, the timer being fair, another scheduled     *)
(* pass eventually starts.                                                 *)
(***************************************************************************)
FailedTick == last.kind = "tick" /\ ~last.success
C7_FailedTickIsFollowed ==
    /\ [](FailedTick => (sched.logged /\ sched.armed /\ sched.alive))
    /\ \A b \in {0, 1} :
          (FailedTick /\ sched.tickBit = b) ~> (sched.tickBit = 1 - b)
\* a scheduled pass has run right after a failed one
C7_Witness ==
    /\ last.kind = "tick"
    /\ sched.prevFailed
    /\ sched.armed
    /\ sched.alive

(***************************************************************************)
(* C8: for every value of the configured sync interval (absent, empty, a   *)
(* number below the minimum, a number above it, a non-numeric string) the  *)
(* delay between consecutive scheduled ticks is at least 60000 ms.         *)
(***************************************************************************)
C8_DelayAtLeastMinimum == output.done => output.v.delay >= 60000

(***************************************************************************)
(* C9: raceNumberFromCode.  As claimed: C<digits> yields the digits' value,*)
(* a code without the leading letter yields the value of its FIRST run of  *)
(* digits, and a code with no digit, an empty or a missing code yields 0.  *)
(***************************************************************************)
FirstDigitRun(s) ==
    LET rest == DropFirst(s, PrefixLen(s, LAMBDA c : ~IsDigit(c)))
    IN SubSeq(rest, 1, PrefixLen(rest, IsDigit))
HasLeadingC(s) == s # <<>> /\ s[1] \in {"C", "c"}
IsCDigitsForm(s) == HasLeadingC(s) /\ Len(s) >= 2 /\ \A i \in 2..Len(s) : IsDigit(s[i])
NoDigit(s) == \A i \in 1..Len(s) : ~IsDigit(s[i])

C9_Examples ==
    /\ input = JsStr(<<"C", "8">>) => output.v = 8
    /\ input = JsStr(<<"8">>) => output.v = 8
    /\ input = JsStr(<<"C">>) => output.v = 0
    /\ input = JsStr(<<>>) => output.v = 0
    /\ input = JsUndef => output.v = 0

C9_FirstRunOfDigits ==
    output.done =>
        /\ C9_Examples
        /\ input.t # "str" => output.v = 0
        /\ input.t = "str" =>
              LET s == Trim(input.s)
              IN /\ IsCDigitsForm(s) => output.v = DecValue(Tail(s))
                 /\ NoDigit(s) => output.v = 0
                 /\ (~HasLeadingC(s) /\ ~NoDigit(s)) => output.v = DecValue(FirstDigitRun(s))

\* C9 as amended: a code that is not of the form C<digits> yields the number
\* written by ALL its digits in order, the other characters removed; that is
\* the first run of digits exactly when the digits are contiguous.
DigitsContiguous(s) == RemoveNonDigits(s) = FirstDigitRun(s)
C9_AllDigits ==
    output.done =>
        /\ C9_Examples
        /\ input.t # "str" => output.v = 0
        /\ input.t = "str" =>
              LET s == input.s
              IN /\ IsCDigitsForm(Trim(s)) => output.v = DecValue(Tail(Trim(s)))
                 /\ NoDigit(s) => output.v = 0
                 /\ ~NoDigit(s) => output.v = DecValue(RemoveNonDigits(s))
                 /\ DigitsContiguous(s) /\ ~NoDigit(s) => output.v = DecValue(FirstDigitRun(s))
C9_Witness ==
    /\ output.done
    /\ input = JsStr(<<"1", "x", "8">>)
    /\ output.v = 18

(***************************************************************************)
(* C10: arrivalFromFinishOrder yields exactly the runner numbers >= 1 of   *)
(* the entries that carry one (bare, numeric field or numeric-string       *)
(* field), in finish order; entries that are unparseable or < 1 are        *)
(* dropped without affecting the others; every element is >= 1.            *)
(***************************************************************************)
CarriesNumber(e) == e.kind \in {"bare", "objNum", "objStr"}
ExpectedArrival(es) ==
    LET F[i \in 0..Len(es)] ==
            IF i = 0 THEN <<>>
            ELSE IF CarriesNumber(es[i]) /\ es[i].n >= 1 THEN Append(F[i - 1], es[i].n)
            ELSE F[i - 1]
    IN F[Len(es)]
C10_ArrivalIsValidSubsequence ==
    output.done =>
        /\ output.v = ExpectedArrival(input)
        /\ \A i \in 1..Len(output.v) : output.v[i] >= 1
C10_Witness ==
    /\ output.done
    /\ Len(input) = 3
    /\ input[1] = [kind |-> "objStr", n |-> 4]
    /\ input[2].kind = "objText"
    /\ input[3] = [kind |-> "objNum", n |-> 12]
    /\ output.v = <<4, 12>>

(***************************************************************************)
(* C11: parsePrize.  An amount written with spaces as thousands separators *)
(* and an optional currency token yields that amount (rounded) and that    *)
(* token, the default currency when the token is missing; a string whose   *)
(* amount part is not a valid non-negative number once its spaces are      *)
(* removed and its first comma made a point yields no purse, and           *)
(* enrichment then leaves the stored purse and currency as they were.      *)
(***************************************************************************)
AmountPart(s) == SubSeq(Trim(s), 1, PrefixLen(Trim(s), IsAmountChar))
CurrencyToken(s) == DropFirst(Trim(s), PrefixLen(Trim(s), IsAmountChar))
NormalAmount(s) == ReplaceFirstComma(RemoveSpaces(AmountPart(s)))
\* digits with at most one decimal point among them
IsValidAmount(n) ==
    /\ \E i \in 1..Len(n) : IsDigit(n[i])
    /\ \A i \in 1..Len(n) : IsDigit(n[i]) \/ n[i] = "."
    /\ Cardinality({i \in 1..Len(n) : n[i] = "."}) <= 1
C11_Examples ==
    /\ input = JsStr(<<"1", " ", "5", "0", "0", " ", "0", "0", "0", " ", "D", "H">>) =>
            /\ output.v.prize.found
            /\ output.v.prize.purse = 1500000
            /\ output.v.prize.pursecurrency = <<"D", "H">>
    /\ input = JsStr(<<"1", "5", "0", "0">>) =>
            /\ output.v.prize.found
            /\ output.v.prize.purse = 1500
            /\ output.v.prize.pursecurrency = DEFAULT_CURRENCY
    /\ input = JsStr(<<"a", "b", "c">>) => ~output.v.prize.found
C11_PrizeParsed ==
    output.done =>
        /\ C11_Examples
        /\ input.t = "str" =>
              /\ (IsValidAmount(NormalAmount(input.s)) /\ \A i \in 1..Len(CurrencyToken(input.s)) :
                        ~IsSpace(CurrencyToken(input.s)[i])) =>
                     /\ output.v.prize.found
                     /\ output.v.prize.purse = MathRound(ParseFloat(NormalAmount(input.s))[1])
                     /\ output.v.prize.pursecurrency =
                            (IF CurrencyToken(input.s) = <<>> THEN DEFAULT_CURRENCY
                             ELSE CurrencyToken(input.s))
              /\ ~IsValidAmount(NormalAmount(input.s)) =>
                     /\ ~output.v.prize.found
                     /\ output.v.race.purse = StoredRace.purse
                     /\ output.v.race.pursecurrency = StoredRace.pursecurrency
        /\ input.t # "str" => ~output.v.prize.found

(***************************************************************************)
(* C12: after any sequence of sync passes (auto-create on or off), manual  *)
(* race creates, manual race updates and JSON uploads, no two stored Races *)
(* have the same UTC calendar date, the same venue (compared               *)
(* case-insensitively after canonicalization) and the same race number.    *)
(***************************************************************************)
RaceKey(race) ==
    <<DayOf(race.date), ToLower(getCanonicalTrack(race.hippodrome)), race.race_number>>
C12_RaceKeyUnique ==
    \A i, j \in 1..Len(races) : i < j => RaceKey(races[i]) # RaceKey(races[j])

(***************************************************************************)
(* C14: after any sequence of sync passes, manual result creates and       *)
(* manual race deletes, the race identifier of every stored Result is the  *)
(* identifier of a stored Race.                                            *)
(***************************************************************************)
C14_ResultHasRace ==
    \A k \in 1..Len(results) : FindRaceById(races, results[k].race_id) # NotFound

(***************************************************************************)
(* Vocabulary of the claims about single external races.                   *)
(***************************************************************************)
\* the external races the last pass worked on, null entries left out
Obtained == IF Fetched[feed].ok THEN Fetched[feed].externals ELSE <<>>
Externals == SelectSeq(Obtained, LAMBDA x : x.race.t = "obj")
JournalOps(journal, pos, stage) ==
    {journal[i].op : i \in JournalAt(journal, pos, stage)}

(***************************************************************************)
(* C15: when the programme fetch fails (non-success status or transport    *)
(* failure) the pass ends with an error before any store write: the store  *)
(* is as it was, an on-demand caller gets success=false, and the scheduler *)
(* logs the error and stays alive with its timer armed.                    *)
(***************************************************************************)
C15_FeedDownAbortsPass ==
    [][(PassStep /\ ~Programme[feed].ok) =>
          /\ races' = races
          /\ results' = results
          /\ report'.status = "error"
          /\ report'.journal = <<>>
          /\ ~last'.success
          /\ ScheduledStep => (sched'.logged /\ sched'.alive /\ sched'.armed)]_vars
\* a scheduled pass has met the feed down on a populated store, after an
\* on-demand pass
C15_Witness ==
    /\ last.kind = "tick"
    /\ ~last.success
    /\ ~Programme[feed].ok
    /\ sched.logged
    /\ races # <<>>
    /\ results # <<>>

(***************************************************************************)
(* C16: a pass fails only when the programme fetch fails; whenever that    *)
(* fetch succeeds the pass runs to the end and the caller gets             *)
(* success=true with a complete report, whatever malformed records the     *)
(* feed holds.                                                             *)
(***************************************************************************)
C16_OnlyFeedFailureFails ==
    (IsPass(last) /\ Programme[feed].ok) => (last.success /\ report.status = "ok")

(***************************************************************************)
(* C17: a race whose detail fetch fails does not make the pass fail; no    *)
(* Race is updated on its behalf, and the Results, the report lists and    *)
(* the outcome of the pass are those of the same pass with every failed    *)
(* detail fetch replaced by a successful one.                              *)
(***************************************************************************)
DetailsAnswered == fetchCasaRaceDetails(PrizeApi(Prize_1500_DH), 1)
Answered(x) ==
    IF x.race.t = "obj" /\ ~x.details.ok THEN [x EXCEPT !.details = DetailsAnswered] ELSE x
WithDetails(fetched) ==
    IF ~fetched.ok THEN fetched
    ELSE LET F[k \in 0..Len(fetched.externals)] ==
                 IF k = 0 THEN <<>> ELSE Append(F[k - 1], Answered(fetched.externals[k]))
         IN [fetched EXCEPT !.externals = F[Len(fetched.externals)]]
DetailFailed(x) == x.race.t = "obj" /\ ~x.details.ok
C17_DetailFailureIsSkipped ==
    [][PassStep =>
          \A fetched \in {Fetched[feed]} :
          \A st \in {runCasaProgrammeSync(races, results, WithDetails(fetched),
                                          last'.date, last'.addRaces)} :
             /\ report'.status = st.status
             /\ report'.status = "ok" =>
                    /\ report'.racesAdded = st.racesAdded
                    /\ report'.created = st.created
                    /\ report'.updated = st.updated
                    /\ report'.skipped = st.skipped
                    /\ report'.notFound = st.notFound
             /\ results' = st.results
             /\ fetched.ok =>
                    \A k \in 1..Len(fetched.externals) :
                        DetailFailed(fetched.externals[k]) =>
                            /\ "raceUpdate" \notin
                                   JournalOps(report'.journal, fetched.externals[k].pos, "create")
                            /\ "raceUpdate" \notin
                                   JournalOps(report'.journal, fetched.externals[k].pos, "result")]_vars
\* a pass has written the Result of a race whose detail fetch failed, and
\* has gone on to the end
C17_Witness ==
    /\ IsPass(last)
    /\ report.status = "ok"
    /\ \E k \in 1..Len(Externals) :
          /\ DetailFailed(Externals[k])
          /\ k < Len(Externals)
          /\ JournalOps(report.journal, Externals[k].pos, "result") \cap
                {"resultCreate", "resultUpdate"} # {}

(***************************************************************************)
(* C19: in a pass that returns, every external race of a retained meeting  *)
(* whose code yields a race number <= 0 is skipped with a diagnostic entry *)
(* in the report: in the result stage whether or not the race is finished  *)
(* or has a finish order, and in the race-creation stage when that stage   *)
(* runs.                                                                   *)
(***************************************************************************)
C19_InvalidNumberIsReported ==
    (IsPass(last) /\ report.status = "ok") =>
        \A k \in 1..Len(Externals) :
            Externals[k].raceNumber <= 0 =>
                /\ JournalOps(report.journal, Externals[k].pos, "result") = {"skipped"}
                /\ last.addRaces =>
                       JournalOps(report.journal, Externals[k].pos, "create") = {"skipped"}

(***************************************************************************)
(* C20: in a pass that returns, every external race of a retained meeting  *)
(* that is marked finished and whose finish order normalises to no usable  *)
(* entry (missing, empty, or unparseable entries only) gets no Result      *)
(* written and exactly one entry in the report's skipped list.             *)
(***************************************************************************)
C20_EmptyArrivalIsReported ==
    (IsPass(last) /\ report.status = "ok") =>
        \A k \in 1..Len(Externals) :
            (Externals[k].race.finished /\ Externals[k].arrival = <<>>) =>
                /\ JournalOps(report.journal, Externals[k].pos, "result") = {"skipped"}
                /\ Cardinality(JournalAt(report.journal, Externals[k].pos, "result")) = 1

(***************************************************************************)
(* Vocabulary of the claims about requests in flight.                      *)
(***************************************************************************)
BothEnded == \A id \in Passes : Ended(running.pass[id])
\* the pass run alone, from the store the overlapping passes started from
SinglePass ==
    runCasaProgrammeSync(running.origin.races, running.origin.results, Fetched[feed], today,
                         \E id \in Passes : running.pass[id].addRaces)

(***************************************************************************)
(* C13: whatever the interleaving of the store calls of sync passes and of *)
(* a manual result create, at most one Result exists per race identifier;  *)
(* a manual create for a race identifier that already has a Result when    *)
(* the handler looks it up is answered 409, and a manual create that is    *)
(* rejected leaves the Results as they were.                               *)
(***************************************************************************)
C13_OneResultPerRace ==
    /\ [](\A k, l \in 1..Len(results) : k < l => results[k].race_id # results[l].race_id)
    /\ [][(running.manual.pc = "m_check" /\ running'.manual # running.manual
             /\ FindResult(results, running.manual.raceId) # NotFound) =>
                (running'.manual.code = 409 /\ results' = results)]_vars
    /\ [][(running'.manual # running.manual /\ running'.manual.code \in {409, 500}) =>
                results' = results]_vars
\* the manual create was answered 409 for a race whose Result a pass in
\* flight had just created
C13_Witness ==
    /\ running # <<>>
    /\ running.manual.code = 409
    /\ \E id \in Passes : running.manual.raceId \in Range(running.pass[id].created)
    /\ FindResult(running.origin.results, running.manual.raceId) = NotFound

(***************************************************************************)
(* C18: for every interleaving of the store calls of two overlapping       *)
(* passes over the same feed data, both passes run to completion without   *)
(* error and the store ends as a single pass leaves it.                    *)
(***************************************************************************)
C18_OverlapIsRedundantWork ==
    (/\ running # <<>>
     /\ BothEnded
     /\ running.manual.pc = "idle"
     /\ SinglePass.status = "ok") =>
        /\ \A id \in Passes : running.pass[id].pc = "done"
        /\ races = SinglePass.races
        /\ results = SinglePass.results


(***************************************************************************)
(* C21: the Matcher returns a stored Race whose date lies in the window of *)
(* the target day, whose venue is the canonical venue as a whole string up *)
(* to case, also when the venue holds a pattern operator, and whose race   *)
(* number is the external one; it returns none exactly when no stored Race *)
(* is like that.                                                           *)
(***************************************************************************)
SameVenue(race, track) == ToLower(race.hippodrome) = ToLower(track)
Wanted(race) ==
    /\ race.date \in DateStart(1)..DateEnd(1)
    /\ SameVenue(race, input.track)
    /\ race.race_number = input.raceNumber
C21_MatcherIsExact ==
    output.done =>
        /\ output.v \in {NotFound} \cup (1..Len(input.rs))
        /\ output.v # NotFound => Wanted(input.rs[output.v])
        /\ output.v = NotFound => \A k \in 1..Len(input.rs) : ~Wanted(input.rs[k])
\* the Matcher has passed over a race whose venue differs from the track only
\* where the track has a dot, and returned the race behind it
C21_Witness ==
    /\ output.done
    /\ output.v = 2
    /\ input.rs[1].hippodrome = <<"a", "x", "b">>
    /\ input.rs[1].race_number = input.raceNumber
    /\ input.rs[1].date = DateStart(1)
    /\ input.rs[2].date = DateEnd(1)
    /\ input.rs[2].hippodrome = <<"A", ".", "B">>


(***************************************************************************)
(* C22: with auto-create on, the race-creation stage creates a Race for an *)
(* external race with a valid race number exactly when neither the Matcher *)
(* nor the lookup by the deterministic identifier finds a Race in the      *)
(* store as it is at that moment; the Race is created for the target day,  *)
(* the canonical venue and the race number, and it has no participants and *)
(* purse 0 as long as no detail response of the race is usable.            *)
(***************************************************************************)
CreatedAt(journal, x) == "raceCreate" \in JournalOps(journal, x.pos, "create")
\* the store as the creation stage sees it after its first k external
\* races: the races of before the pass and the ones the journal says it made
SeenAfter(rs, journal, d, xs, k) ==
    LET F[j \in 0..k] ==
            IF j = 0 THEN rs
            ELSE IF CreatedAt(journal, xs[j])
                 THEN Append(F[j - 1], NewCasaRace(d, xs[j].track, xs[j].raceNumber, xs[j].race))
                 ELSE F[j - 1]
    IN F[k]
Usable(details) ==
    details.ok /\ (details.prize.found \/ details.participants # <<>>)
SameRace(x, y) ==
    x.raceNumber = y.raceNumber /\ ToLower(x.track) = ToLower(y.track)
AtDefaults(race) == race.purse = 0 /\ race.participants = <<>>
C22_CreatesExactlyUnknownRaces ==
    [][(PassStep /\ last'.addRaces /\ report'.status = "ok") =>
          \A xs \in {Externals} :
          \A k \in 1..Len(xs) :
          \A seen \in {SeenAfter(races, report'.journal, last'.date, xs, k - 1)} :
             /\ CreatedAt(report'.journal, xs[k]) <=>
                    /\ xs[k].raceNumber > 0
                    /\ FindRace(seen, last'.date, xs[k].track, xs[k].raceNumber) = NotFound
                    /\ FindRaceById(seen, casaRaceId(last'.date, xs[k].raceNumber, xs[k].track))
                           = NotFound
             /\ CreatedAt(report'.journal, xs[k]) =>
                    /\ Len(races') > Len(seen)
                    /\ \A made \in {races'[Len(seen) + 1]} :
                          /\ made.id = casaRaceId(last'.date, xs[k].raceNumber, xs[k].track)
                          /\ made.id \in Range(report'.racesAdded)
                          /\ made.date = DateStart(last'.date)
                          /\ made.hippodrome = xs[k].track
                          /\ made.race_number = xs[k].raceNumber
                          /\ (\A j \in 1..Len(xs) :
                                 SameRace(xs[j], xs[k]) => ~Usable(xs[j].details))
                                => AtDefaults(made)]_vars
\* a pass with auto-create has created a Race whose detail fetch failed and
\* which is at its defaults, and has created none for a race that was known
C22_Witness ==
    /\ IsPass(last) /\ last.addRaces /\ report.status = "ok"
    /\ \E k \in 1..Len(Externals) :
          /\ CreatedAt(report.journal, Externals[k])
          /\ ~Externals[k].details.ok
          /\ \E i \in 1..Len(races) :
                /\ races[i].id \in Range(report.racesAdded)
                /\ races[i].race_number = Externals[k].raceNumber
                /\ AtDefaults(races[i])
    /\ \E k \in 1..Len(Externals) :
          /\ Externals[k].raceNumber > 0
          /\ ~CreatedAt(report.journal, Externals[k])

(***************************************************************************)
(* C23: a pass writes a Result only for an external race that is finished, *)
(* has a non-empty normalised finish order and is matched to a Race; a     *)
(* Result the pass created has four empty payout maps and the normalised   *)
(* arrival of the last external race written to it; every Result the pass  *)
(* created or updated has a non-empty arrival with entries >= 1; and no    *)
(* other Result is touched.                                                *)
(***************************************************************************)
ResultWrites == {"resultCreate", "resultUpdate"}
WritesOf(journal) == {i \in 1..Len(journal) : journal[i].op \in ResultWrites}
ExternalAt(xs, e) == xs[CHOOSE k \in 1..Len(xs) : xs[k].pos = <<e.m, e.r>>]
\* the identifier of the Race the Matcher gives for the external race x
MatchedId(rs, d, x) ==
    IF FindRace(rs, d, x.track, x.raceNumber) = NotFound THEN <<>>
    ELSE rs[FindRace(rs, d, x.track, x.raceNumber)].id
C23_ResultOnlyForFinishedMatched ==
    [][PassStep =>
          \A xs \in {Externals} :
          \A journal \in {report'.journal} :
          \A written \in {[i \in WritesOf(journal) |->
                              MatchedId(races', last'.date, ExternalAt(xs, journal[i]))]} :
             /\ \A i \in DOMAIN written :
                   \A x \in {ExternalAt(xs, journal[i])} :
                   \A k \in {FindResult(results', written[i])} :
                      /\ x.race.finished = TRUE
                      /\ x.arrival # <<>>
                      /\ written[i] # <<>>
                      /\ k # NotFound
                      /\ results'[k].arrival # <<>>
                      /\ \A n \in Range(results'[k].arrival) : n >= 1
                      /\ (\A j \in DOMAIN written : written[j] = written[i] => j <= i)
                            => results'[k].arrival = x.arrival
                      /\ journal[i].op = "resultCreate" =>
                            /\ FindResult(results, written[i]) = NotFound
                            /\ results'[k].rapports = EmptyMap
                            /\ results'[k].simple = EmptyMap
                            /\ results'[k].couple = EmptyMap
                            /\ results'[k].trio = EmptyMap
             /\ \A k \in 1..Len(results') :
                   \/ k <= Len(results) /\ results'[k] = results[k]
                   \/ \E i \in DOMAIN written : written[i] = results'[k].race_id]_vars
\* a pass has created the Result of one race and left another finished race
\* without one
C23_Witness ==
    /\ IsPass(last)
    /\ report.created # <<>>
    /\ \E k \in 1..Len(results) :
          results[k].race_id \in Range(report.created) /\ results[k].rapports = EmptyMap
    /\ \E k \in 1..Len(Externals) :
          /\ Externals[k].race.finished = TRUE
          /\ JournalOps(report.journal, Externals[k].pos, "result") \cap ResultWrites = {}

(***************************************************************************)
(* C24: a pass deletes no Race and no Result, and of a Race that existed   *)
(* before the pass it leaves the identifier, the date, the venue, the race *)
(* number, the time, the distance and the title as they were.              *)
(***************************************************************************)
KeptFields == {"id", "date", "hippodrome", "race_number", "time", "distance", "title"}
C24_PassKeepsRacesAndResults ==
    [][PassStep =>
          /\ Len(races') >= Len(races)
          /\ \A i \in 1..Len(races) :
                \E j \in 1..Len(races') :
                    \A f \in KeptFields : races'[j][f] = races[i][f]
          /\ Len(results') >= Len(results)
          /\ \A k \in 1..Len(results) :
                \E j \in 1..Len(results') : results'[j].race_id = results[k].race_id]_vars
\* a pass has enriched a Race that was created by hand, and updated the
\* Result of that Race
C24_Witness ==
    /\ IsPass(last)
    /\ report.updated # <<>>
    /\ \E e \in Range(report.journal) : e.op = "raceUpdate" /\ e.stage = "result"
    /\ \E i \in 1..Len(races) :
          /\ races[i].id = manualRaceId(DateStart(1), 1)
          /\ races[i].id \in Range(report.updated)
          /\ races[i].purse # 900
          /\ races[i].title = <<"G", "P">>

(***************************************************************************)
(* C25: the identifier of a Race is derived from its date, its venue and   *)
(* its race number on every creation path, so that a race can be created   *)
(* whenever the store holds no Race for its date, venue and race number,   *)
(* also when it holds a Race with that date and number at another venue.   *)
(***************************************************************************)
NoRaceFor(rs, d, hippodrome, raceNumber) ==
    \A i \in 1..Len(rs) :
        ~(/\ DayOf(rs[i].date) = d
          /\ SameVenue(rs[i], hippodrome)
          /\ rs[i].race_number = raceNumber)
C25_OtherVenueIsCreated ==
    [][\A h \in UploadVenues, n \in ManualNumbers :
          (UploadRaceJson(DateStart(1), h, n) /\ NoRaceFor(races, 1, h, n))
              => (last'.success /\ Len(races') = Len(races) + 1)]_vars

(***************************************************************************)
(* C26: when auto-sync is enabled, starting the scheduler runs one pass at *)
(* once, for the UTC date of that moment, and arms the timer; every pass   *)
(* the scheduler starts, at the start and at each tick, is a pass for the  *)
(* UTC date of that moment; when auto-sync is disabled, starting arms no   *)
(* timer and no scheduled pass is ever started.                            *)
(***************************************************************************)
Starting == ~sched.started /\ sched'.started
C26_SchedulerStartsPasses ==
    [][/\ (Starting /\ sched.enabled) => (ScheduledStep /\ sched'.armed)
       /\ (Starting /\ ~sched.enabled) =>
              (~sched'.armed /\ races' = races /\ results' = results /\ last' = last)
       /\ ScheduledStep =>
              /\ sched.enabled
              /\ Starting \/ sched.armed
              /\ last'.kind = "tick"
              /\ last'.date = today
              /\ \A st \in {runCasaProgrammeSync(races, results, Fetched[feed], today, FALSE)} :
                    races' = st.races /\ results' = st.results /\ report' = ReportOf(st)
       /\ ~sched.enabled => (~sched'.armed /\ last'.kind # "tick")]_vars
\* the scheduler, started on day 1, has run a pass at a tick on day 2
C26_Witness ==
    /\ sched.enabled /\ sched.started /\ sched.armed
    /\ today = 2
    /\ last.kind = "tick"
    /\ last.date = 2
    /\ report.status = "ok"

(***************************************************************************)
(* C27: however the Result lookup and the arrival update of a pass are     *)
(* interleaved with a manual update of the payout maps of the same Result, *)
(* from the manual update on the Result holds the payout maps that were    *)
(* written by hand.                                                        *)
(***************************************************************************)
C27_PayoutEditSurvivesPass ==
    (running.manual.pc = "done" /\ running.manual.code = 200) =>
        \A k \in {FindResult(results, running.manual.raceId)} :
            /\ k # NotFound
            /\ results[k].rapports = running.manual.maps.rapports
            /\ results[k].simple = running.manual.maps.simple
            /\ results[k].couple = running.manual.maps.couple
            /\ results[k].trio = running.manual.maps.trio
\* the payout maps of a Result were written by hand between a pass's lookup
\* of that Result and its arrival update, and the pass has ended having
\* set the arrival
C27_Witness ==
    /\ running.manual.pc = "done"
    /\ running.manual.code = 200
    /\ running.manual.during = "r_write"
    /\ running.manual.awaited = running.manual.raceId
    /\ Ended(running.pass[1])
    /\ running.manual.raceId \in Range(running.pass[1].updated)
    /\ \E k \in 1..Len(results) :
          /\ results[k].race_id = running.manual.raceId
          /\ results[k].arrival # <<4>>

(***************************************************************************)
(* C28: in a pass with auto-create that returns, the result stage resolves *)
(* every external race the creation stage found or created: the notFound   *)
(* list is empty, and every finished external race of a retained meeting   *)
(* with a race number >= 1 and a non-empty normalised finish order has a   *)
(* Result after the pass.                                                  *)
(***************************************************************************)
C28_StagesAgree ==
    (IsPass(last) /\ last.addRaces /\ report.status = "ok") =>
        /\ report.notFound = <<>>
        /\ \A k \in 1..Len(Externals) :
              \A x \in {Externals[k]} :
                 (x.race.finished = TRUE /\ x.raceNumber > 0 /\ x.arrival # <<>>) =>
                     /\ MatchedId(races, last.date, x) # <<>>
                     /\ FindResult(results, MatchedId(races, last.date, x)) # NotFound

(***************************************************************************)
(* C29: within one pass each Result is written at most once: no race       *)
(* identifier occurs more than once in the report's created and updated    *)
(* lists taken together.                                                   *)
(***************************************************************************)
C29_ResultWrittenOnce ==
    (IsPass(last) /\ report.status = "ok") =>
        \A written \in {report.created \o report.updated} :
            \A i, j \in 1..Len(written) : written[i] = written[j] => i = j

(***************************************************************************)
(* C30: enrichment erases nothing of a Race: its participants are replaced *)
(* only by a non-empty mapped participant list, its purse and currency     *)
(* only by a parsed prize, and whatever the detail response lacks keeps    *)
(* its stored value; no other field of the Race changes, and a detail      *)
(* fetch that failed changes nothing.                                      *)
(***************************************************************************)
C30_EnrichmentErasesNothing ==
    output.done =>
        \A before \in {input.race} :
        \A after \in {output.v} :
        \A mapped \in {IF input.answer.ok
                        THEN mapRunnersToParticipants(input.answer.runners) ELSE <<>>} :
        \A parsed \in {IF input.answer.ok THEN parsePrize(input.answer.prize) ELSE NoPrize} :
           /\ after.participants = IF mapped # <<>> THEN mapped ELSE before.participants
           /\ after.purse = IF parsed.found THEN parsed.purse ELSE before.purse
           /\ after.pursecurrency =
                 IF parsed.found THEN parsed.pursecurrency ELSE before.pursecurrency
           /\ after.participants = <<>> => before.participants = <<>>
           /\ DOMAIN after = DOMAIN before
           /\ \A f \in KeptFields : after[f] = before[f]
\* a detail response with a prize and without a usable runner has been
\* applied to a Race that has participants
C30_Witness ==
    /\ output.done
    /\ input.race = StoredRace
    /\ input.answer.ok
    /\ input.answer.runners # <<>>
    /\ output.v.purse = 1500
    /\ output.v.purse # input.race.purse
    /\ output.v.participants = StoredRace.participants
====
